---- MODULE Spec2Model ----
(***************************************************************************)
(* Polling-and-cache coordination of the BYD Vehicle integration.          *)
(*                                                                         *)
(* One vehicle (one VIN).  The telemetry coordinator                       *)
(* (BydDataUpdateCoordinator), the location coordinator                    *)
(* (BydGpsUpdateCoordinator), the shared client wrapper (BydApi) and the   *)
(* car-on switch (BydCarOnSwitch) are modelled as tasks of one cooperative *)
(* event loop: a task gives up control only where the code awaits a remote *)
(* call, so every action below runs from one await to the next.            *)
(* The coordinate guard (guard_gps_coordinates) and the command entities   *)
(* (BydLock, BydBatteryHeatSwitch) have specifications of their own.       *)
(*                                                                         *)
(* Optional values (Python's  X | None) are sequences of length 0 or 1.    *)
(***************************************************************************)
EXTENDS Integers, Sequences, FiniteSets, TLC

\* ------------------------------------------------------------------ bounds
\* The monotonic clock runs from 0 to MaxTime in steps of TickStep seconds.
MaxTime == 60
TickStep == 30
\* At most MaxDelayed delayed-refresh tasks of the car-on switch sleep at once.
MaxDelayed == 1
\* The clock of the command-entity specification: 0 to MaxEntityTime in
\* steps of EntityTickStep seconds.
MaxEntityTime == 400
EntityTickStep == 100
\* At most MaxAckTasks delayed fetches scheduled by command acks sleep at once.
MaxAckTasks == 2
\* At most MaxAcks command acknowledgements are dispatched.
MaxAcks == 1
\* At most MaxClients clients are created by _ensure_client.
MaxClients == 3

\* ----------------------------------------------------------- program constants
OPTIMISTIC_HVAC_GUARD_TTL_S == 60
DEFAULT_TEMP_C == 21
DEFAULT_POLL_INTERVAL == 300
DEFAULT_GPS_POLL_INTERVAL == 300
DEFAULT_GPS_ACTIVE_INTERVAL == 30
DEFAULT_GPS_INACTIVE_INTERVAL == 600
DELAYED_REFRESH_SECONDS == 20
OPTIMISTIC_TTL_SECONDS == 300
MQTT_HVAC_FETCH_DELAY_S == 3
\* _GPS_NULL_ISLAND_THRESHOLD (0.1 degree), in hundredths of a degree.
GPS_NULL_ISLAND_THRESHOLD == 10

\* ------------------------------------------------------------ optional values
None == << >>
Some(x) == << x >>
IsNone(o) == o = << >>
Get(o) == o[1]
\* Python's  a or b  on two optional model objects (objects are truthy).
OrElse(a, b) == IF IsNone(a) THEN b ELSE a

\* ------------------------------------------------------------------- values
\* VehicleRealtimeData, reduced to the power state the coordinators read.
RealtimeValues == [on : BOOLEAN]
\* HvacStatus, reduced to A/C power (status, read through is_ac_on) and the
\* target temperature (main_setting_temp_new).  The seat and steering-wheel
\* fields that reset_seats touches are not represented.
OtherTemp == 18
Temps == {OtherTemp, DEFAULT_TEMP_C}
HvacValues == [ac : BOOLEAN, temp : Temps]
\* GpsInfo: latitude / longitude, each optional, in hundredths of a degree.
Fix(lat, lon) == [lat |-> lat, lon |-> lon]
\* What get_gps_info returns: a valid fix, null island, a fix without
\* latitude.
GpsValues == {Fix(Some(5210), Some(490)), Fix(Some(0), Some(0)),
              Fix(None, Some(490))}

\* Error tuples shared by the telemetry and GPS _fetch closures.  The remote
\* calls of the model raise errors of these two classes only, and
\* BydClient.async_start (in _ensure_client) is taken to succeed.
AUTH_ERRORS == {"BydAuthenticationError", "BydSessionExpiredError"}
RECOVERABLE_ERRORS == {"BydApiError", "BydTransportError", "BydRateLimitError",
                       "BydEndpointNotSupportedError"}
\* What the client's command call can raise.
COMMAND_ERRORS ==
    {"BydRemoteControlError", "BydControlPasswordError"}
    \cup AUTH_ERRORS \cup RECOVERABLE_ERRORS

VARIABLES
    now,                     \* time.monotonic()
    polling_enabled,         \* telemetry: _polling_enabled
    force_next_refresh,      \* telemetry: _force_next_refresh
    update_interval,         \* telemetry: update_interval (optional)
    last_realtime,           \* telemetry: _last_realtime (optional)
    last_hvac,               \* telemetry: _last_hvac (optional)
    optimistic_hvac_until,   \* telemetry: _optimistic_hvac_until (optional)
    optimistic_ac_expected,  \* telemetry: _optimistic_ac_expected (optional)
    data,                    \* telemetry: coordinator.data (optional dict)
    pc,                      \* telemetry cycle: "idle" | "realtime" | "hvac"
    cyc,                     \* telemetry cycle locals: force, realtime, attempt, calls
    sw,                      \* car-on switch: wake-up times of its delayed refreshes
    gps,                     \* location coordinator state
    vg,                      \* value_guard: one call of guard_gps_coordinates
    ent,                     \* a command entity (lock / battery-heat switch)
    api,                     \* BydApi: registry, client, calls, delayed fetches
    fr,                      \* freshness: one call of build_telemetry_material_snapshot
    ev                       \* what the last step did (observation only)

vars == << now, polling_enabled, force_next_refresh, update_interval,
           last_realtime, last_hvac, optimistic_hvac_until,
           optimistic_ac_expected, data, pc, cyc, sw, gps, vg, ent, api,
           fr, ev >>

\* The variables of the layers around the two coordinators.
other_vars == << vg, ent, api, fr >>

telemetry_vars == << polling_enabled, force_next_refresh, update_interval,
                     last_realtime, last_hvac, optimistic_hvac_until,
                     optimistic_ac_expected, data, pc, cyc >>

\* The dict a cycle returns: "vehicles" always holds the VIN; "realtime" and
\* "hvac" hold the VIN's value or are empty.
Cache(rt, hv) == [realtime |-> rt, hvac |-> hv]
\* {"vehicles": {vin: vehicle}}: the identity-only placeholder.
Placeholder == Cache(None, None)
GpsCache(g) == [gps |-> g]
GpsPlaceholder == GpsCache(None)

\* ev describes the step just taken when that step ended an operation (or an
\* attempt of it): the operation, how it ended, the exception class that
\* left the handler ("" when none did), the endpoints whose fetch failed
\* with a recoverable error (the keys of endpoint_failures), the remote
\* endpoints the operation called, and the value fetched last (cand): for a
\* climate value the branch it took in _accept_hvac_update is the verdict
\* ("none" otherwise).  After any other step ev is NoEvent.
Event(op, res, err, failures, calls, cand, verdict) ==
    [op |-> op, res |-> res, err |-> err, failures |-> failures,
     calls |-> calls, cand |-> cand, verdict |-> verdict]
Step(op, res) == Event(op, res, "", {}, {}, None, "none")
NoEvent == Step("none", "none")

IdleCycle == [force |-> FALSE, realtime |-> None, attempt |-> 1, calls |-> {}]

\* No call of guard_gps_coordinates is being looked at.
NoGuardCall == [previous |-> None, incoming |-> None, result |-> None,
                called |-> FALSE]

\* The tasks that call BydApi.async_call: the two poll cycles, a command,
\* the two delayed confirmation fetches.
Tasks == {"telemetry", "gps", "command", "fetch_hvac", "fetch_realtime"}

\* A task that is not inside async_call.
IdleTask == [pc |-> "idle", kind |-> "none", attempt |-> 1, runs |-> 0]

\* BydApi after __init__ and, when registered, register_coordinators:
\* _client is None (client 0; a created client carries its creation
\* number), no acknowledgement dispatched, no delayed fetch sleeping, no
\* call under way, the entry not unloaded.  made and closed count the
\* clients created and closed.
NoApi(registered) ==
    [registered |-> registered, acks |-> 0, scheduled |-> {}, client |-> 0,
     made |-> 0, closed |-> 0, unloaded |-> FALSE,
     task |-> [t \in Tasks |-> IdleTask]]

\* The resource kinds of a telemetry snapshot.
SnapshotKinds == {"realtime", "hvac", "charging", "energy"}

\* No call of build_telemetry_material_snapshot is being looked at.
NoSnapshotCall ==
    [sources |-> [k \in SnapshotKinds |-> None], result |-> << >>,
     called |-> FALSE]

\* A command entity of the given kind right after it was added: nothing
\* commanded, nothing pending.  cache is the value the entity reads from
\* coordinator.data (all doors locked / is_battery_heating; None: unknown),
\* pc is "calling" while _execute_command awaits the remote call, rollbacks
\* counts the on_rollback calls of the current command, commanded is the
\* value of the command that set _command_pending, tasks counts the sleeping
\* delayed fetches, registered tells whether BydApi knows the coordinator.
NoEntity(kind, registered) ==
    [kind |-> kind, last_state |-> None, command_pending |-> FALSE,
     commanded_at |-> None, commanded |-> None, cache |-> None, pc |-> "idle",
     rollbacks |-> 0, tasks |-> 0, registered |-> registered]

\* The state after async_setup_entry has constructed both coordinators.
InitCoordinators(smart) ==
    /\ now = 0
    /\ polling_enabled = TRUE
    /\ force_next_refresh = FALSE
    /\ update_interval = Some(DEFAULT_POLL_INTERVAL)
    /\ last_realtime = None
    /\ last_hvac = None
    /\ optimistic_hvac_until = None
    /\ optimistic_ac_expected = None
    /\ data = None
    /\ pc = "idle"
    /\ cyc = IdleCycle
    /\ sw = [delayed |-> {}]
    /\ gps = [polling_enabled |-> TRUE, force_next_refresh |-> FALSE,
              smart_polling |-> smart,
              current_interval |-> DEFAULT_GPS_POLL_INTERVAL,
              update_interval |-> Some(DEFAULT_GPS_POLL_INTERVAL),
              data |-> None, pc |-> "idle", attempt |-> 1]
    /\ ev = NoEvent

InitWith(smart) ==
    /\ InitCoordinators(smart)
    /\ vg = NoGuardCall
    /\ ent = NoEntity("lock", FALSE)
    /\ api = NoApi(FALSE)
    /\ fr = NoSnapshotCall

\* smart_polling defaults to False in BydGpsUpdateCoordinator.__init__.
Init == InitWith(FALSE)
InitPolling == \E smart \in BOOLEAN : InitWith(smart)

\* async_setup_entry adds the entities (switches among them) only after the
\* first refresh has succeeded.
entities_added == ~IsNone(data)

\* ------------------------------------------------------------ pure helpers
\* _is_vehicle_on answering None for every realtime value.
is_vehicle_on_of_unknown(realtime) == None

\* BydDataUpdateCoordinator._is_vehicle_on (static): None when no realtime.
is_vehicle_on_of(realtime) ==
    IF IsNone(realtime) THEN None ELSE Some(Get(realtime).on)

\* BydDataUpdateCoordinator.is_vehicle_on (property).
is_vehicle_on == is_vehicle_on_of(last_realtime) = Some(TRUE)

\* _should_fetch_hvac without its first test (_last_hvac is None).
should_fetch_hvac_ignores_cache(realtime, force) ==
    IF force THEN TRUE
    ELSE is_vehicle_on_of(realtime) = Some(TRUE)

\* BydDataUpdateCoordinator._should_fetch_hvac.
should_fetch_hvac(realtime, force) ==
    IF IsNone(last_hvac) THEN TRUE
    ELSE IF force THEN TRUE
    ELSE is_vehicle_on_of(realtime) = Some(TRUE)

\* _accept_hvac_update without its final comparison: a candidate that
\* contradicts an unexpired guard is let through as if it confirmed it.
accept_hvac_update_never_rejects(hvac) ==
    IF IsNone(optimistic_hvac_until) THEN "no_guard"
    ELSE IF now >= Get(optimistic_hvac_until) THEN "expired"
    ELSE "confirmed"

\* _accept_hvac_update: the branch taken for candidate hvac.  "no_guard",
\* "expired" and "confirmed" return True, "rejected" returns False;
\* "expired" and "confirmed" also clear both guard fields.
accept_hvac_update(hvac) ==
    IF IsNone(optimistic_hvac_until) THEN "no_guard"
    ELSE IF now >= Get(optimistic_hvac_until) THEN "expired"
    ELSE IF Some(hvac.ac) = optimistic_ac_expected THEN "confirmed"
    ELSE "rejected"

\* _accept_hvac_update forgetting to clear the guard on expiry.
guard_after_keeps_expired(verdict) ==
    IF verdict = "confirmed"
    THEN [until |-> None, expected |-> None]
    ELSE [until |-> optimistic_hvac_until, expected |-> optimistic_ac_expected]

\* The guard fields after _accept_hvac_update took the given branch.
guard_after(verdict) ==
    IF verdict \in {"expired", "confirmed"}
    THEN [until |-> None, expected |-> None]
    ELSE [until |-> optimistic_hvac_until, expected |-> optimistic_ac_expected]

\* BydApi.async_call without its retry: a BydSessionExpiredError on the
\* first attempt is raised as ConfigEntryAuthFailed straight away.
async_call_raises_without_retry(e, attempt) ==
    IF e \in AUTH_ERRORS THEN "ConfigEntryAuthFailed" ELSE "UpdateFailed"

\* BydApi.async_call: what the wrapper raises when the handler raised e on
\* the given attempt ("retry": the client is recreated and the handler runs
\* a second time).
async_call_raises(e, attempt) ==
    IF attempt = 1
    THEN CASE e = "BydSessionExpiredError" -> "retry"
           [] e = "BydAuthenticationError" -> "ConfigEntryAuthFailed"
           [] e \in {"BydControlPasswordError", "BydRateLimitError",
                     "BydEndpointNotSupportedError", "BydTransportError",
                     "BydApiError"} -> "UpdateFailed"
           [] OTHER -> e
    ELSE IF e \in AUTH_ERRORS THEN "ConfigEntryAuthFailed" ELSE "UpdateFailed"

\* ------------------------------------------------- telemetry coordinator
\* "if realtime is not None: self._last_realtime = realtime" (and the same
\* for hvac) with the test left out: a failed fetch empties _last_*.
new_last_overwrites(fetched, last) == fetched

\* Lines 523-527: _last_realtime / _last_hvac take a freshly fetched value
\* and keep their own otherwise.
new_last(fetched, last) == IF IsNone(fetched) THEN last ELSE fetched

\* The fallback to _last_hvac taken whatever the power state.
effective_hvac_always_falls_back(hvac, vehicle_on, cached) ==
    OrElse(hvac, cached)

\* Line 541: the fresh climate value, else the cached one, the latter only
\* when the effective realtime reports the vehicle on.
effective_hvac(hvac, vehicle_on, cached) ==
    OrElse(hvac, IF vehicle_on = Some(TRUE) THEN cached ELSE None)

\* The bookkeeping with UpdateFailed also raised when hvac_map is empty.
cycle_result_needs_climate(realtime, hvac) ==
    LET new_last_realtime == new_last(realtime, last_realtime)
        new_last_hvac == new_last(hvac, last_hvac)
        effective_realtime == OrElse(realtime, new_last_realtime)
        vehicle_on == is_vehicle_on_of(OrElse(realtime, new_last_realtime))
        hvac_value == effective_hvac(hvac, vehicle_on, new_last_hvac)
    IN  [last_realtime |-> new_last_realtime,
         last_hvac |-> new_last_hvac,
         failed |-> IsNone(effective_realtime) \/ IsNone(hvac_value),
         result |-> Cache(effective_realtime, hvac_value)]

\* _async_update_data lines 523-548: the bookkeeping after the fetches.
\* realtime / hvac are the freshly fetched (and accepted) values or None.
cycle_result(realtime, hvac) ==
    LET new_last_realtime == new_last(realtime, last_realtime)
        new_last_hvac == new_last(hvac, last_hvac)
        effective_realtime == OrElse(realtime, new_last_realtime)
        vehicle_on == is_vehicle_on_of(OrElse(realtime, new_last_realtime))
        hvac_value == effective_hvac(hvac, vehicle_on, new_last_hvac)
    IN  [last_realtime |-> new_last_realtime,
         last_hvac |-> new_last_hvac,
         failed |-> IsNone(effective_realtime),
         result |-> Cache(effective_realtime, hvac_value)]

\* endpoint_failures (its keys) of a cycle whose realtime fetch gave
\* realtime (None: it failed) and whose climate fetch failed or not.
endpoint_failures(realtime, hvac_failed) ==
    (IF IsNone(realtime) THEN {"realtime"} ELSE {})
    \cup (IF hvac_failed THEN {"hvac"} ELSE {})

\* The end of a cycle whose fetches are done: _last_* are updated, then the
\* cycle either raises UpdateFailed (no realtime at all; coordinator.data is
\* kept) or returns the dict that becomes coordinator.data.
finish_cycle(realtime, hvac, failures, calls, cand, verdict) ==
    LET r == cycle_result(realtime, hvac) IN
    /\ last_realtime' = r.last_realtime
    /\ last_hvac' = r.last_hvac
    /\ data' = IF r.failed THEN data ELSE Some(r.result)
    /\ pc' = "idle"
    /\ cyc' = IdleCycle
    /\ ev' = Event("poll", IF r.failed THEN "UpdateFailed" ELSE "ok", "",
                   failures, calls, cand, verdict)

\* An authentication-class error leaves _fetch: async_call either reruns the
\* whole handler once (session expired, first attempt) or raises.
cycle_auth_error(e, calls) ==
    /\ IF async_call_raises(e, cyc.attempt) = "retry"
       THEN /\ pc' = "realtime"
            /\ cyc' = [cyc EXCEPT !.attempt = 2, !.realtime = None,
                                  !.calls = calls]
            /\ ev' = Event("poll", "retry", e, {}, calls, None, "none")
       ELSE /\ pc' = "idle"
            /\ cyc' = IdleCycle
            /\ ev' = Event("poll", async_call_raises(e, cyc.attempt), e, {},
                           calls, None, "none")
    /\ UNCHANGED << last_realtime, last_hvac, data, optimistic_hvac_until,
                    optimistic_ac_expected >>

\* The skip test of both coordinators with its sense inverted on the
\* polling flag.
skip_cycle_inverted(enabled, force) == enabled /\ ~force

\* The skip test at the top of both _async_update_data methods.
skip_cycle(enabled, force) == ~enabled /\ ~force

\* The start of a cycle with "self._force_next_refresh = False" left out.
force_after_start_not_consumed(force) == force

\* Lines 473-474: the flag is read into the local force and reset.
force_after_start(force) == FALSE

\* _async_update_data up to the first await: consume the force flag, skip
\* when polling is disabled and not forced, else enter async_call.
async_update_data_start ==
    /\ pc = "idle"
    /\ force_next_refresh' = force_after_start(force_next_refresh)
    /\ IF skip_cycle(polling_enabled, force_next_refresh)
       THEN /\ data' = IF IsNone(data) THEN Some(Placeholder) ELSE data
            /\ ev' = Step("poll", "skipped")
            /\ UNCHANGED << pc, cyc >>
       ELSE /\ pc' = "realtime"
            /\ cyc' = [force |-> force_next_refresh, realtime |-> None,
                       attempt |-> 1, calls |-> {}]
            /\ ev' = NoEvent
            /\ UNCHANGED data
    /\ UNCHANGED << now, polling_enabled, update_interval, last_realtime,
                    last_hvac, optimistic_hvac_until, optimistic_ac_expected,
                    sw, gps >>
    /\ UNCHANGED other_vars

\* get_vehicle_realtime returns or raises; then the climate decision; when
\* climate is not fetched the cycle finishes in the same step.
async_update_data_realtime ==
    /\ pc = "realtime"
    /\ LET calls == cyc.calls \cup {"realtime"} IN
       \/ \E e \in AUTH_ERRORS : cycle_auth_error(e, calls)
       \/ \E realtime \in {None} \cup {Some(v) : v \in RealtimeValues} :
            \* None: one of _RECOVERABLE_ERRORS was raised and recorded.
            /\ IF should_fetch_hvac(OrElse(realtime, last_realtime), cyc.force)
               THEN /\ pc' = "hvac"
                    /\ cyc' = [cyc EXCEPT !.realtime = realtime,
                                          !.calls = calls]
                    /\ ev' = NoEvent
                    /\ UNCHANGED << last_realtime, last_hvac, data >>
               ELSE finish_cycle(realtime, None, endpoint_failures(realtime, FALSE),
                                 calls, None, "none")
            /\ UNCHANGED << optimistic_hvac_until, optimistic_ac_expected >>
    /\ UNCHANGED << now, polling_enabled, force_next_refresh, update_interval,
                    sw, gps >>
    /\ UNCHANGED other_vars

\* get_hvac_status returns or raises; the guard check; the cycle finishes.
async_update_data_hvac ==
    /\ pc = "hvac"
    /\ LET calls == cyc.calls \cup {"hvac"} IN
       \/ \E e \in AUTH_ERRORS : cycle_auth_error(e, calls)
       \/ \* one of _RECOVERABLE_ERRORS
          /\ finish_cycle(cyc.realtime, None, endpoint_failures(cyc.realtime, TRUE),
                          calls, None, "none")
          /\ UNCHANGED << optimistic_hvac_until, optimistic_ac_expected >>
       \/ \E v \in HvacValues :
            LET verdict == accept_hvac_update(v) IN
            /\ optimistic_hvac_until' = guard_after(verdict).until
            /\ optimistic_ac_expected' = guard_after(verdict).expected
            /\ finish_cycle(cyc.realtime,
                            IF verdict = "rejected" THEN None ELSE Some(v),
                            endpoint_failures(cyc.realtime, FALSE), calls, Some(v),
                            verdict)
    /\ UNCHANGED << now, polling_enabled, force_next_refresh, update_interval,
                    sw, gps >>
    /\ UNCHANGED other_vars

\* How a delayed fetch task ends when the fetch inside its try raised: the
\* except clause catches every Exception and only logs it.
delayed_fetch_result_propagates(raised) == raised

delayed_fetch_result(raised) == "swallowed"

\* async_fetch_hvac (entered from async_fetch_hvac_delayed), taken when
\* get_hvac_status returns or raises inside async_call: nothing is read or
\* written before that point.  An accepted value becomes _last_hvac and is
\* merged into coordinator.data when that is a dict.
async_fetch_hvac ==
    /\ \/ \E e \in AUTH_ERRORS \cup RECOVERABLE_ERRORS, attempt \in {1, 2} :
            /\ async_call_raises(e, attempt) # "retry"
            /\ ev' = Event("fetch_hvac",
                           delayed_fetch_result(async_call_raises(e, attempt)),
                           e, {}, {"hvac"}, None, "none")
            /\ UNCHANGED << last_hvac, data, optimistic_hvac_until,
                            optimistic_ac_expected >>
       \/ \E v \in HvacValues :
            LET verdict == accept_hvac_update(v) IN
            /\ optimistic_hvac_until' = guard_after(verdict).until
            /\ optimistic_ac_expected' = guard_after(verdict).expected
            /\ IF verdict # "rejected"
               THEN /\ last_hvac' = Some(v)
                    /\ data' = IF IsNone(data) THEN data
                               ELSE Some([Get(data) EXCEPT !.hvac = Some(v)])
               ELSE UNCHANGED << last_hvac, data >>
            /\ ev' = Event("fetch_hvac", "ok", "", {}, {"hvac"}, Some(v),
                           verdict)
    /\ UNCHANGED << now, polling_enabled, force_next_refresh, update_interval,
                    last_realtime, pc, cyc, sw, gps >>
    /\ UNCHANGED other_vars

\* async_fetch_realtime_delayed after its sleep: async_fetch_realtime runs
\* inside the task's try.  A fetch that returns replaces _last_realtime and,
\* when data is a dict, the cache's realtime.
async_fetch_realtime ==
    /\ \/ \E e \in AUTH_ERRORS \cup RECOVERABLE_ERRORS, attempt \in {1, 2} :
            /\ async_call_raises(e, attempt) # "retry"
            /\ ev' = Event("fetch_realtime",
                           delayed_fetch_result(async_call_raises(e, attempt)),
                           e, {}, {"realtime"}, None, "none")
            /\ UNCHANGED << last_realtime, data >>
       \/ \E v \in RealtimeValues :
            /\ last_realtime' = Some(v)
            /\ data' = IF IsNone(data) THEN data
                       ELSE Some([Get(data) EXCEPT !.realtime = Some(v)])
            /\ ev' = Event("fetch_realtime", "ok", "", {}, {"realtime"},
                           None, "none")
    /\ UNCHANGED << now, polling_enabled, force_next_refresh, update_interval,
                    last_hvac, optimistic_hvac_until, optimistic_ac_expected,
                    pc, cyc, sw, gps >>
    /\ UNCHANGED other_vars

\* handle_mqtt_realtime's new dict, built from an empty dict instead of a
\* copy of coordinator.data.
merge_realtime_into_empty(d, v) ==
    IF IsNone(d) THEN d ELSE Some(Cache(Some(v), None))

\* handle_mqtt_realtime's new coordinator.data: a copy of the dict with
\* "realtime" replaced; nothing when data is not a dict yet.
merge_realtime(d, v) ==
    IF IsNone(d) THEN d ELSE Some([Get(d) EXCEPT !.realtime = Some(v)])

\* handle_mqtt_realtime: a pushed realtime update.
handle_mqtt_realtime ==
    /\ \E v \in RealtimeValues :
         /\ last_realtime' = Some(v)
         /\ data' = merge_realtime(data, v)
    /\ ev' = NoEvent
    /\ UNCHANGED << now, polling_enabled, force_next_refresh,
                    update_interval, last_hvac, optimistic_hvac_until,
                    optimistic_ac_expected, pc, cyc, sw, gps >>
    /\ UNCHANGED other_vars

\* apply_optimistic_hvac keeping the expected value of a guard that is
\* already armed (only the expiry is renewed).
apply_optimistic_hvac_keeps_expected(ac_on, target_temp, reset_seats) ==
    LET unchanged == [last_hvac |-> last_hvac, data |-> data,
                      until |-> optimistic_hvac_until,
                      expected |-> optimistic_ac_expected, applied |-> FALSE]
    IN  IF IsNone(data) THEN unchanged
        ELSE IF IsNone(Get(data).hvac) THEN unchanged
        ELSE LET current_hvac == Get(Get(data).hvac)
                 has_updates == ~IsNone(ac_on) \/ ~IsNone(target_temp)
                 patched ==
                     [ac |-> IF IsNone(ac_on) THEN current_hvac.ac
                             ELSE Get(ac_on),
                      temp |-> IF IsNone(target_temp) THEN current_hvac.temp
                               ELSE Get(target_temp)]
             IN  IF ~has_updates THEN unchanged
                 ELSE [last_hvac |-> Some(patched),
                       data |-> Some([Get(data) EXCEPT !.hvac = Some(patched)]),
                       until |-> IF IsNone(ac_on) THEN optimistic_hvac_until
                                 ELSE Some(now + OPTIMISTIC_HVAC_GUARD_TTL_S),
                       expected |-> IF IsNone(ac_on)
                                       \/ ~IsNone(optimistic_ac_expected)
                                    THEN optimistic_ac_expected
                                    ELSE ac_on,
                       applied |-> TRUE]

\* apply_optimistic_hvac: the fields it leaves behind.  applied is false on
\* the early returns (no dict, no baseline climate value, no updates).
apply_optimistic_hvac(ac_on, target_temp, reset_seats) ==
    LET unchanged == [last_hvac |-> last_hvac, data |-> data,
                      until |-> optimistic_hvac_until,
                      expected |-> optimistic_ac_expected, applied |-> FALSE]
    IN  IF IsNone(data) THEN unchanged
        ELSE IF IsNone(Get(data).hvac) THEN unchanged
        ELSE LET current_hvac == Get(Get(data).hvac)
                 \* reset_seats adds updates only for seat fields
                 has_updates == ~IsNone(ac_on) \/ ~IsNone(target_temp)
                 patched ==
                     [ac |-> IF IsNone(ac_on) THEN current_hvac.ac
                             ELSE Get(ac_on),
                      temp |-> IF IsNone(target_temp) THEN current_hvac.temp
                               ELSE Get(target_temp)]
             IN  IF ~has_updates THEN unchanged
                 ELSE [last_hvac |-> Some(patched),
                       data |-> Some([Get(data) EXCEPT !.hvac = Some(patched)]),
                       until |-> IF IsNone(ac_on) THEN optimistic_hvac_until
                                 ELSE Some(now + OPTIMISTIC_HVAC_GUARD_TTL_S),
                       expected |-> IF IsNone(ac_on) THEN optimistic_ac_expected
                                    ELSE ac_on,
                       applied |-> TRUE]

\* BydCarOnSwitch.async_turn_on / async_turn_off, taken when the remote
\* command returns to _execute_command.  Success and the soft failure
\* (BydRemoteControlError) let the method go on: the optimistic patch is
\* applied and the delayed refresh is scheduled.  Any other failure raises
\* out of _execute_command before either happens.
car_on_switch ==
    /\ entities_added
    /\ Cardinality(sw.delayed) < MaxDelayed
    /\ \E on \in BOOLEAN, r \in {"ok", "soft", "HomeAssistantError"} :
         IF r = "HomeAssistantError"
         THEN /\ ev' = Step(IF on THEN "car_on" ELSE "car_off", r)
              /\ UNCHANGED << last_hvac, data, optimistic_hvac_until,
                              optimistic_ac_expected, sw >>
         ELSE LET o == IF on
                       THEN apply_optimistic_hvac(Some(TRUE),
                                                  Some(DEFAULT_TEMP_C), FALSE)
                       ELSE apply_optimistic_hvac(Some(FALSE), None, TRUE)
              IN  /\ last_hvac' = o.last_hvac
                  /\ data' = o.data
                  /\ optimistic_hvac_until' = o.until
                  /\ optimistic_ac_expected' = o.expected
                  /\ sw' = [sw EXCEPT
                              !.delayed = @ \cup {now + DELAYED_REFRESH_SECONDS}]
                  /\ ev' = Step(IF on THEN "car_on" ELSE "car_off", r)
    /\ UNCHANGED << now, polling_enabled, force_next_refresh,
                    update_interval, last_realtime, pc, cyc, gps >>
    /\ UNCHANGED other_vars

\* The task scheduled by _schedule_delayed_refresh wakes up and calls
\* async_force_refresh, which sets the force flag and requests a refresh.
async_force_refresh ==
    /\ \E t \in sw.delayed :
         /\ now >= t
         /\ sw' = [sw EXCEPT !.delayed = @ \ {t}]
    /\ force_next_refresh' = TRUE
    /\ ev' = NoEvent
    /\ UNCHANGED << now, polling_enabled, update_interval,
                    last_realtime, last_hvac, optimistic_hvac_until,
                    optimistic_ac_expected, data, pc, cyc, gps >>
    /\ UNCHANGED other_vars

\* BydGpsUpdateCoordinator.set_polling_enabled going back to the fixed
\* interval when polling is enabled.
gps_interval_after_set_fixed(g, enabled) ==
    IF enabled THEN Some(DEFAULT_GPS_POLL_INTERVAL) ELSE None

\* BydGpsUpdateCoordinator.set_polling_enabled: the update_interval it
\* leaves, _current_interval when polling is enabled.
gps_interval_after_set(g, enabled) ==
    IF enabled THEN Some(g.current_interval) ELSE None

\* BydDisablePollingSwitch._apply: set_polling_enabled on both coordinators.
set_polling_enabled ==
    /\ entities_added
    /\ \E enabled \in BOOLEAN :
         /\ polling_enabled' = enabled
         /\ update_interval' = IF enabled THEN Some(DEFAULT_POLL_INTERVAL)
                               ELSE None
         /\ gps' = [gps EXCEPT
                      !.polling_enabled = enabled,
                      !.update_interval = gps_interval_after_set(gps, enabled)]
    /\ ev' = NoEvent
    /\ UNCHANGED << now, force_next_refresh, last_realtime, last_hvac,
                    optimistic_hvac_until, optimistic_ac_expected, data, pc,
                    cyc, sw >>
    /\ UNCHANGED other_vars

\* The monotonic clock advances.
Tick ==
    /\ now + TickStep <= MaxTime
    /\ now' = now + TickStep
    /\ ev' = NoEvent
    /\ UNCHANGED << polling_enabled, force_next_refresh,
                    update_interval, last_realtime, last_hvac,
                    optimistic_hvac_until, optimistic_ac_expected, data, pc,
                    cyc, sw, gps >>
    /\ UNCHANGED other_vars

\* ---------------------------------------------------- location coordinator
\* _adjust_interval with the active and the inactive interval exchanged.
adjust_interval_exchanged(g) ==
    LET current == IF ~g.smart_polling THEN DEFAULT_GPS_POLL_INTERVAL
                   ELSE IF is_vehicle_on THEN DEFAULT_GPS_INACTIVE_INTERVAL
                   ELSE DEFAULT_GPS_ACTIVE_INTERVAL
    IN  [g EXCEPT !.current_interval = current,
                  !.update_interval = IF g.polling_enabled THEN Some(current)
                                      ELSE @]

\* BydGpsUpdateCoordinator._adjust_interval (the telemetry coordinator is
\* always paired, see async_setup_entry).
adjust_interval(g) ==
    LET current == IF ~g.smart_polling THEN DEFAULT_GPS_POLL_INTERVAL
                   ELSE IF is_vehicle_on THEN DEFAULT_GPS_ACTIVE_INTERVAL
                   ELSE DEFAULT_GPS_INACTIVE_INTERVAL
    IN  [g EXCEPT !.current_interval = current,
                  !.update_interval = IF g.polling_enabled THEN Some(current)
                                      ELSE @]

\* BydGpsUpdateCoordinator.async_force_refresh.
gps_async_force_refresh ==
    /\ ~gps.force_next_refresh
    /\ gps' = [gps EXCEPT !.force_next_refresh = TRUE]
    /\ ev' = NoEvent
    /\ UNCHANGED << now, telemetry_vars, sw >>
    /\ UNCHANGED other_vars

\* BydGpsUpdateCoordinator._async_update_data up to its await.
gps_update_data_start ==
    /\ gps.pc = "idle"
    /\ IF skip_cycle(gps.polling_enabled, gps.force_next_refresh)
       THEN /\ gps' = [gps EXCEPT
                         !.force_next_refresh = FALSE,
                         !.data = IF IsNone(@) THEN Some(GpsPlaceholder) ELSE @]
            /\ ev' = Step("gps_poll", "skipped")
       ELSE /\ gps' = [gps EXCEPT !.force_next_refresh = FALSE,
                                  !.pc = "gps", !.attempt = 1]
            /\ ev' = NoEvent
    /\ UNCHANGED << now, telemetry_vars, sw >>
    /\ UNCHANGED other_vars

\* get_gps_info returns or raises: a recoverable error leaves gps_map empty
\* and the cycle raises UpdateFailed; a fix becomes the cycle's result and
\* the interval is recomputed.
gps_update_data_return ==
    /\ gps.pc = "gps"
    /\ \/ \E e \in AUTH_ERRORS :
            /\ IF async_call_raises(e, gps.attempt) = "retry"
               THEN /\ gps' = [gps EXCEPT !.attempt = 2]
                    /\ ev' = Event("gps_poll", "retry", e, {}, {"gps"}, None,
                                   "none")
               ELSE /\ gps' = [gps EXCEPT !.pc = "idle", !.attempt = 1]
                    /\ ev' = Event("gps_poll",
                                   async_call_raises(e, gps.attempt),
                                   e, {}, {"gps"}, None, "none")
       \/ \* one of _RECOVERABLE_ERRORS
          /\ gps' = [gps EXCEPT !.pc = "idle", !.attempt = 1]
          /\ ev' = Event("gps_poll", "UpdateFailed", "", {"gps"}, {"gps"}, None,
                      "none")
       \/ \E v \in GpsValues :
            /\ gps' = adjust_interval([gps EXCEPT !.pc = "idle", !.attempt = 1,
                                                  !.data = Some(GpsCache(Some(v)))])
            /\ ev' = Event("gps_poll", "ok", "", {}, {"gps"}, Some(v), "none")
    /\ UNCHANGED << now, telemetry_vars, sw >>
    /\ UNCHANGED other_vars

\* BydGpsUpdateCoordinator.async_fetch_gps, taken when get_gps_info returns
\* or raises inside async_call: the fetched fix is merged into
\* coordinator.data when that is a dict.  Of a failure only what async_call
\* raised is recorded.
async_fetch_gps ==
    /\ \/ \E e \in AUTH_ERRORS \cup RECOVERABLE_ERRORS, attempt \in {1, 2} :
            /\ async_call_raises(e, attempt) # "retry"
            /\ ev' = Event("fetch_gps", async_call_raises(e, attempt), "",
                           {}, {"gps"}, None, "none")
            /\ UNCHANGED gps
       \/ \E v \in GpsValues :
            /\ gps' = IF IsNone(gps.data) THEN gps
                      ELSE [gps EXCEPT !.data = Some(GpsCache(Some(v)))]
            /\ ev' = Event("fetch_gps", "ok", "", {}, {"gps"}, Some(v), "none")
    /\ UNCHANGED << now, telemetry_vars, sw >>
    /\ UNCHANGED other_vars

\* The telemetry coordinator with the car-on switch, pushes, the polling
\* switch and the clock.
Next ==
    \/ async_update_data_start
    \/ async_update_data_realtime
    \/ async_update_data_hvac
    \/ async_fetch_hvac
    \/ handle_mqtt_realtime
    \/ car_on_switch
    \/ async_force_refresh
    \/ set_polling_enabled
    \/ Tick

Spec == Init /\ [][Next]_vars

\* The telemetry coordinator with the car-on switch and both delayed
\* confirmation fetches, while nothing is pushed and polling stays enabled.
NextDelayed ==
    \/ async_update_data_start
    \/ async_update_data_realtime
    \/ async_update_data_hvac
    \/ async_fetch_hvac
    \/ async_fetch_realtime
    \/ car_on_switch
    \/ async_force_refresh
    \/ Tick

SpecDelayed == Init /\ [][NextDelayed]_vars

\* ---------------------------------------------------------- push dispatch
\* BydApi._handle_vehicle_info: a pushed realtime value for the VIN.  A
\* registered coordinator takes it through handle_mqtt_realtime; for an
\* unknown VIN the handler only logs.
handle_vehicle_info ==
    /\ \E v \in RealtimeValues :
         IF api.registered
         THEN /\ last_realtime' = Some(v)
              /\ data' = merge_realtime(data, v)
              /\ ev' = Event("push", "ok", "", {}, {}, Some(v), "none")
         ELSE /\ UNCHANGED << last_realtime, data >>
              /\ ev' = Step("push", "unknown_vin")
    /\ UNCHANGED << now, polling_enabled, force_next_refresh,
                    update_interval, last_hvac, optimistic_hvac_until,
                    optimistic_ac_expected, pc, cyc, sw, gps >>
    /\ UNCHANGED other_vars

\* The two tasks _handle_command_ack creates for acknowledgement number n
\* at time t: each sleeps MQTT_HVAC_FETCH_DELAY_S before it fetches.
ack_tasks_hvac_only(n, t) ==
    {[kind |-> "hvac", due |-> t + MQTT_HVAC_FETCH_DELAY_S, ack |-> n]}

ack_tasks(n, t) ==
    {[kind |-> k, due |-> t + MQTT_HVAC_FETCH_DELAY_S, ack |-> n] :
        k \in {"hvac", "realtime"}}

\* BydApi._handle_command_ack: for a registered coordinator
\* async_set_updated_data(coordinator.data) republishes the same data and
\* the two delayed fetches are created; for an unknown VIN nothing happens.
handle_command_ack_dispatch ==
    /\ api.acks < MaxAcks
    /\ IF api.registered
       THEN /\ api' = [api EXCEPT
                         !.acks = @ + 1,
                         !.scheduled = @ \cup ack_tasks(api.acks + 1, now)]
            /\ ev' = Step("command_ack", "ok")
       ELSE /\ api' = [api EXCEPT !.acks = @ + 1]
            /\ ev' = Step("command_ack", "unknown_vin")
    /\ UNCHANGED << now, telemetry_vars, sw, gps, vg, ent, fr >>

\* asyncio.sleep(delay) of a delayed fetch is over: the task goes on to its
\* fetch.
delayed_fetch_wakes ==
    /\ \E t \in api.scheduled :
         /\ now >= t.due
         /\ api' = [api EXCEPT !.scheduled = @ \ {t}]
         /\ ev' = Step("wake", t.kind)
    /\ UNCHANGED << now, telemetry_vars, sw, gps, vg, ent, fr >>

InitPush ==
    /\ InitCoordinators(FALSE)
    /\ vg = NoGuardCall
    /\ ent = NoEntity("lock", FALSE)
    /\ \E registered \in BOOLEAN : api = NoApi(registered)
    /\ fr = NoSnapshotCall

\* The telemetry coordinator with the car-on switch and the polling
\* switch, while the broker pushes realtime values.
NextPush ==
    \/ async_update_data_start
    \/ async_update_data_realtime
    \/ async_update_data_hvac
    \/ handle_vehicle_info
    \/ car_on_switch
    \/ set_polling_enabled

SpecPush == InitPush /\ [][NextPush]_vars

\* The broker pushes a realtime value through the client, which exists
\* once the first cycle has entered async_call.
push_while_connected ==
    /\ pc # "idle" \/ entities_added
    /\ handle_vehicle_info

\* A forced realtime fetch: it follows a command, and commands come from
\* the entities.
fetch_realtime_after_setup ==
    /\ entities_added
    /\ async_fetch_realtime

\* The telemetry coordinator's poll cycles with forced realtime fetches
\* and pushed realtime values, from the first refresh on.
NextRealtime ==
    \/ async_update_data_start
    \/ async_update_data_realtime
    \/ async_update_data_hvac
    \/ fetch_realtime_after_setup
    \/ push_while_connected

SpecRealtime == InitPush /\ [][NextRealtime]_vars

\* The telemetry coordinator while the broker pushes realtime values and
\* command acknowledgements and the clock runs.
NextAck ==
    \/ async_update_data_start
    \/ async_update_data_realtime
    \/ async_update_data_hvac
    \/ handle_vehicle_info
    \/ handle_command_ack_dispatch
    \/ delayed_fetch_wakes
    \/ set_polling_enabled
    \/ Tick

SpecAck == InitPush /\ [][NextAck]_vars

\* ------------------------------------------------------- BydApi.async_call
\* The remote calls a task's handler makes, in order: the telemetry _fetch
\* fetches realtime and then (when _should_fetch_hvac says so) climate.
first_kind(t) ==
    CASE t = "telemetry" -> "realtime"
      [] t = "gps" -> "gps"
      [] t = "command" -> "command"
      [] t = "fetch_hvac" -> "hvac"
      [] t = "fetch_realtime" -> "realtime"

\* What the remote call of a task can raise.
call_errors(t) ==
    IF t = "command" THEN COMMAND_ERRORS
    ELSE AUTH_ERRORS \cup RECOVERABLE_ERRORS

\* The _fetch closures of the two poll cycles catch _RECOVERABLE_ERRORS
\* around each remote call; the other handlers catch nothing.
handler_catches(t, e) ==
    t \in {"telemetry", "gps"} /\ e \in RECOVERABLE_ERRORS

\* async_call with _invalidate_client in every except clause.
invalidates_on_every_failure(e, attempt) == TRUE

\* The except clauses of async_call that call _invalidate_client: session
\* expiry and transport failure of the first attempt.
invalidates(e, attempt) ==
    attempt = 1 /\ e \in {"BydSessionExpiredError", "BydTransportError"}

\* _invalidate_client: the current client, if any, is closed and forgotten.
invalidate_client(a) ==
    [a EXCEPT !.client = 0,
              !.closed = IF a.client = 0 THEN @ ELSE @ + 1]

\* _ensure_client: a client is created and started when there is none.
ensure_client(a) ==
    IF a.client = 0
    THEN [a EXCEPT !.client = a.made + 1, !.made = @ + 1]
    ELSE a

\* The retry branch going on with the client it already had.
client_for_retry_reuses(a) == a

\* The retry branch of async_call up to the second handler run:
\* _invalidate_client, then _ensure_client.
client_for_retry(a) == ensure_client(invalidate_client(a))

\* A task enters async_call: _ensure_client, then the handler starts and
\* awaits its first remote call.  The delayed fetches exist only for a
\* registered coordinator.
call_start ==
    /\ \E t \in Tasks :
         /\ api.task[t].pc = "idle"
         /\ t \in {"fetch_hvac", "fetch_realtime"} => api.registered
         /\ api.client = 0 => api.made < MaxClients
         /\ api' = [ensure_client(api) EXCEPT
                      !.task[t] = [pc |-> "flight", kind |-> first_kind(t),
                                   attempt |-> 1, runs |-> 1]]
    /\ ev' = NoEvent
    /\ UNCHANGED << now, telemetry_vars, sw, gps, vg, ent, fr >>

\* The remote call a task awaits returns a value.  The telemetry handler
\* goes on to the climate fetch or skips it; every other handler returns.
call_returns ==
    /\ \E t \in Tasks :
         /\ api.task[t].pc = "flight"
         /\ \/ /\ t = "telemetry" /\ api.task[t].kind = "realtime"
               /\ api' = [api EXCEPT !.task[t].kind = "hvac"]
               /\ ev' = Event("call", "continue", "", {}, {t}, None, "none")
            \/ /\ api' = [api EXCEPT !.task[t] = IdleTask]
               /\ ev' = Event("call", "ok", "", {}, {t}, None, "none")
    /\ UNCHANGED << now, telemetry_vars, sw, gps, vg, ent, fr >>

\* The remote call a task awaits raises e and the handler catches it: the
\* location handler then raises UpdateFailed itself; the telemetry handler
\* goes on to the climate fetch, returns, or raises UpdateFailed when it
\* has no realtime value at all.  That UpdateFailed passes through
\* async_call's last clause unchanged.
call_raises_caught ==
    /\ \E t \in Tasks : \E e \in call_errors(t) :
         /\ api.task[t].pc = "flight"
         /\ handler_catches(t, e)
         /\ \/ /\ t = "telemetry" /\ api.task[t].kind = "realtime"
               /\ api' = [api EXCEPT !.task[t].kind = "hvac"]
               /\ ev' = Event("call", "continue", e, {}, {t}, None, "caught")
            \/ /\ t = "telemetry"
               /\ api' = [api EXCEPT !.task[t] = IdleTask]
               /\ ev' = Event("call", "ok", e, {}, {t}, None, "caught")
            \/ /\ t = "gps" \/ api.task[t].kind = "realtime"
               /\ api' = [api EXCEPT !.task[t] = IdleTask]
               /\ ev' = Event("call", "UpdateFailed", e, {}, {t}, None,
                              "caught")
    /\ UNCHANGED << now, telemetry_vars, sw, gps, vg, ent, fr >>

\* The remote call a task awaits raises e and e leaves the handler:
\* async_call retries once after a session expiry of the first attempt and
\* otherwise raises, invalidating the client first where its clause says so.
call_raises ==
    /\ \E t \in Tasks : \E e \in call_errors(t) :
         LET attempt == api.task[t].attempt
             raised == async_call_raises(e, attempt)
         IN  /\ api.task[t].pc = "flight"
             /\ ~handler_catches(t, e)
             /\ IF raised = "retry"
                THEN /\ api.made < MaxClients
                     /\ api' = [client_for_retry(api) EXCEPT
                                  !.task[t] = [pc |-> "flight",
                                               kind |-> first_kind(t),
                                               attempt |-> 2,
                                               runs |-> api.task[t].runs + 1]]
                ELSE api' = [(IF invalidates(e, attempt)
                              THEN invalidate_client(api) ELSE api)
                             EXCEPT !.task[t] = IdleTask]
             /\ ev' = Event("call", raised, e, {}, {t}, None, "raised")
    /\ UNCHANGED << now, telemetry_vars, sw, gps, vg, ent, fr >>

InitApi ==
    /\ InitCoordinators(FALSE)
    /\ vg = NoGuardCall
    /\ ent = NoEntity("lock", FALSE)
    /\ \E registered \in BOOLEAN : api = NoApi(registered)
    /\ fr = NoSnapshotCall

\* Every caller of async_call on the shared client, unsynchronised: the
\* coordinators' timers, the user's commands and the ack-spawned fetches
\* start their calls independently of one another.
NextApi ==
    \/ call_start
    \/ call_returns
    \/ call_raises_caught
    \/ call_raises

SpecApi == InitApi /\ [][NextApi]_vars

\* ------------------------------------------- async_call, client lifecycle
\* async_call step by step between its awaits, for the callers whose
\* handlers catch nothing.  on[t] is the client task t's handler was
\* given (0: none), started the clients whose async_start has returned.
\* async_start is taken to return normally and _invalidate_client to run
\* without another task in between.
ClientTasks == {"command", "fetch_hvac", "fetch_realtime"}

NoClientApi ==
    [registered |-> TRUE, acks |-> 0, scheduled |-> {}, client |-> 0,
     made |-> 0, closed |-> 0, unloaded |-> FALSE,
     task |-> [t \in Tasks |-> IdleTask],
     on |-> [t \in Tasks |-> 0], started |-> {}]

\* A task enters async_call and _ensure_client.  With a client present
\* (_client is not None, whether or not its async_start has returned)
\* the handler starts on it in the same step; with none, the task
\* creates one, stores it in _client and awaits its async_start.
client_call_start ==
    /\ \E t \in ClientTasks :
         /\ api.task[t].pc = "idle"
         /\ api.client = 0 => api.made < MaxClients
         /\ IF api.client # 0
            THEN api' = [api EXCEPT
                           !.task[t] = [pc |-> "flight", kind |-> first_kind(t),
                                        attempt |-> 1, runs |-> 1],
                           !.on[t] = api.client]
            ELSE api' = [ensure_client(api) EXCEPT
                           !.task[t] = [pc |-> "starting", kind |-> first_kind(t),
                                        attempt |-> 1, runs |-> 0],
                           !.on[t] = api.made + 1]
         /\ ev' = Event("call", "enter", "", {}, {t}, None, "none")
    /\ UNCHANGED << now, telemetry_vars, sw, gps, vg, ent, fr >>

\* async_start of the client a task created returns: _ensure_client
\* returns self._client as it is now and the handler starts on it.  When
\* another task has invalidated the client meanwhile, self._client is
\* None and the handler fails on it at once; that exception is none of
\* pyBYD's and is raised as it is (first attempt) or as UpdateFailed.
client_async_start_returns ==
    /\ \E t \in ClientTasks :
         /\ api.task[t].pc = "starting"
         /\ IF api.client # 0
            THEN /\ api' = [api EXCEPT
                              !.started = @ \cup {api.on[t]},
                              !.task[t].pc = "flight",
                              !.task[t].runs = @ + 1,
                              !.on[t] = api.client]
                 /\ ev' = Event("call", "started", "", {}, {t}, None, "none")
            ELSE /\ api' = [api EXCEPT
                              !.started = @ \cup {api.on[t]},
                              !.task[t] = IdleTask,
                              !.on[t] = 0]
                 /\ ev' = Event("call",
                                async_call_raises("AttributeError",
                                                  api.task[t].attempt),
                                "AttributeError", {}, {t}, None, "raised")
    /\ UNCHANGED << now, telemetry_vars, sw, gps, vg, ent, fr >>

\* The handler's remote call returns and async_call returns its value.
client_call_returns ==
    /\ \E t \in ClientTasks :
         /\ api.task[t].pc = "flight"
         /\ api' = [api EXCEPT !.task[t] = IdleTask, !.on[t] = 0]
         /\ ev' = Event("call", "ok", "", {}, {t}, None, "none")
    /\ UNCHANGED << now, telemetry_vars, sw, gps, vg, ent, fr >>

\* The handler's remote call raises e: the except clauses of async_call.
\* A session expiry of the first attempt invalidates the client and
\* enters _ensure_client again; a transport error of the first attempt
\* invalidates the client and raises; everything else only raises.
client_call_raises ==
    /\ \E t \in ClientTasks : \E e \in call_errors(t) :
         LET attempt == api.task[t].attempt
             raised == async_call_raises(e, attempt)
         IN  /\ api.task[t].pc = "flight"
             /\ IF raised = "retry"
                THEN /\ api.made < MaxClients
                     /\ api' = [client_for_retry(api) EXCEPT
                                  !.task[t] = [pc |-> "starting",
                                               kind |-> first_kind(t),
                                               attempt |-> 2,
                                               runs |-> api.task[t].runs],
                                  !.on[t] = api.made + 1]
                ELSE api' = [(IF invalidates(e, attempt)
                              THEN invalidate_client(api) ELSE api)
                             EXCEPT !.task[t] = IdleTask, !.on[t] = 0]
             /\ ev' = Event("call", raised, e, {}, {t}, None, "raised")
    /\ UNCHANGED << now, telemetry_vars, sw, gps, vg, ent, fr >>

InitClient ==
    /\ InitCoordinators(FALSE)
    /\ vg = NoGuardCall
    /\ ent = NoEntity("lock", FALSE)
    /\ api = NoClientApi
    /\ fr = NoSnapshotCall

\* Commands and forced fetches calling async_call independently of one
\* another: nothing serialises them.
NextClient ==
    \/ client_call_start
    \/ client_async_start_returns
    \/ client_call_returns
    \/ client_call_raises

SpecClient == InitClient /\ [][NextClient]_vars

\* ------------------------------------------------------------ entry unload
\* async_unload_entry (and BydApi.async_shutdown): after the platforms are
\* unloaded the client is invalidated.  Nothing else is done: the tasks
\* created with hass.async_create_task are not cancelled.
async_unload_entry ==
    /\ ~api.unloaded
    /\ api' = [invalidate_client(api) EXCEPT !.unloaded = TRUE]
    /\ ev' = Step("unload", "ok")
    /\ UNCHANGED << now, telemetry_vars, sw, gps, vg, ent, fr >>

\* The name of the async_call task of a delayed fetch.
fetch_task(kind) == IF kind = "hvac" THEN "fetch_hvac" ELSE "fetch_realtime"

\* async_fetch_hvac_delayed / async_fetch_realtime_delayed after their
\* asyncio.sleep(delay): async_fetch_hvac / async_fetch_realtime enters
\* async_call, which runs _ensure_client and then the handler's remote
\* call.
delayed_fetch_runs ==
    /\ \E t \in api.scheduled :
         /\ now >= t.due
         /\ api.task[fetch_task(t.kind)].pc = "idle"
         /\ api.client = 0 => api.made < MaxClients
         /\ api' = [ensure_client(api) EXCEPT
                      !.scheduled = @ \ {t},
                      !.task[fetch_task(t.kind)] =
                          [pc |-> "flight", kind |-> t.kind,
                           attempt |-> 1, runs |-> 1]]
         /\ ev' = Step("wake", t.kind)
    /\ UNCHANGED << now, telemetry_vars, sw, gps, vg, ent, fr >>

\* The client of a loaded entry hands a command acknowledgement to the
\* dispatcher.
ack_while_loaded ==
    /\ ~api.unloaded
    /\ api.client # 0
    /\ handle_command_ack_dispatch

\* The entry after async_setup_entry: the first refresh of the
\* coordinators has created the client.
InitTeardown ==
    /\ InitCoordinators(FALSE)
    /\ vg = NoGuardCall
    /\ ent = NoEntity("lock", FALSE)
    /\ api = ensure_client(NoApi(TRUE))
    /\ fr = NoSnapshotCall

\* The delayed fetches of command acknowledgements, their calls, the
\* clock and the unloading of the entry.
NextTeardown ==
    \/ ack_while_loaded
    \/ delayed_fetch_runs
    \/ call_returns
    \/ call_raises
    \/ async_unload_entry
    \/ Tick

SpecTeardown == InitTeardown /\ [][NextTeardown]_vars

\* Both coordinators' poll cycles side by side, with pushes and the polling
\* switch, while no command is issued.
NextPolling ==
    \/ async_update_data_start
    \/ async_update_data_realtime
    \/ async_update_data_hvac
    \/ handle_mqtt_realtime
    \/ set_polling_enabled
    \/ gps_async_force_refresh
    \/ gps_update_data_start
    \/ gps_update_data_return
    \/ async_fetch_gps

SpecPolling == InitPolling /\ [][NextPolling]_vars

\* ------------------------------------------------------------ value_guard
Abs(n) == IF n < 0 THEN -n ELSE n

\* Coordinates around the null-island threshold and one far from it.
CoordValues == {-10, -2, 0, 9, 10, 5210}
Coords == {None} \cup {Some(n) : n \in CoordValues}
\* GpsInfo | None as guard_gps_coordinates takes it.
OptFixes == {None} \cup {Some(Fix(lat, lon)) : lat \in Coords, lon \in Coords}

\* value_guard.guard_gps_coordinates.
guard_gps_coordinates(previous, incoming) ==
    IF IsNone(incoming) THEN previous
    ELSE IF IsNone(previous) THEN incoming
    ELSE LET lat == Get(incoming).lat
             lon == Get(incoming).lon
         IN  IF IsNone(lat) /\ IsNone(lon) THEN previous
             ELSE IF /\ ~IsNone(lat)
                     /\ ~IsNone(lon)
                     /\ Abs(Get(lat)) < GPS_NULL_ISLAND_THRESHOLD
                     /\ Abs(Get(lon)) < GPS_NULL_ISLAND_THRESHOLD
                  THEN previous
                  ELSE incoming

\* A caller holds a previous fix (or none) and receives an incoming one.
InitGuard ==
    /\ InitCoordinators(FALSE)
    /\ ent = NoEntity("lock", FALSE)
    /\ api = NoApi(FALSE)
    /\ fr = NoSnapshotCall
    /\ \E previous \in OptFixes, incoming \in OptFixes :
         vg = [previous |-> previous, incoming |-> incoming, result |-> None,
               called |-> FALSE]

\* The call guard_gps_coordinates(previous, incoming).
guard_gps_call ==
    /\ ~vg.called
    /\ vg' = [vg EXCEPT
                !.result = guard_gps_coordinates(vg.previous, vg.incoming),
                !.called = TRUE]
    /\ ev' = Step("guard_gps", "ok")
    /\ UNCHANGED << now, telemetry_vars, sw, gps, ent, api, fr >>

\* The caller keeps the result as its previous fix and receives the next
\* incoming one.
guard_gps_next ==
    /\ vg.called
    /\ \E incoming \in OptFixes :
         vg' = [previous |-> vg.result, incoming |-> incoming,
                result |-> None, called |-> FALSE]
    /\ ev' = NoEvent
    /\ UNCHANGED << now, telemetry_vars, sw, gps, ent, api, fr >>

NextGuard ==
    \/ guard_gps_call
    \/ guard_gps_next

SpecGuard == InitGuard /\ [][NextGuard]_vars

\* -------------------------------------------------------------- freshness
\* Attribute values: Python's None, an int, an enum member with an int
\* value.
Null == [t |-> "none", v |-> 0]
IntOf(n) == [t |-> "int", v |-> n]
EnumOf(n) == [t |-> "enum", v |-> n]

TELEMETRY_REALTIME_FIELDS ==
    {"elec_percent", "endurance_mileage", "total_mileage", "speed",
     "temp_in_car", "left_front_tire_pressure", "right_front_tire_pressure",
     "left_rear_tire_pressure", "right_rear_tire_pressure"}
TELEMETRY_HVAC_FIELDS == {"temp_out_car", "pm"}
TELEMETRY_CHARGING_FIELDS == {"soc", "full_hour", "full_minute"}
TELEMETRY_ENERGY_FIELDS == {"total_energy", "avg_energy_consumption"}

\* The whitelist build_telemetry_material_snapshot uses for each kind.
material_fields(k) ==
    CASE k = "realtime" -> TELEMETRY_REALTIME_FIELDS
      [] k = "hvac" -> TELEMETRY_HVAC_FIELDS
      [] k = "charging" -> TELEMETRY_CHARGING_FIELDS
      [] k = "energy" -> TELEMETRY_ENERGY_FIELDS

\* The attributes a source object of each kind may carry in the inputs
\* drawn below (timestamp and random_debug are not whitelisted), and the
\* values they may have.
SourceAttrs(k) ==
    CASE k = "realtime" -> {"elec_percent", "speed", "timestamp"}
      [] k = "hvac" -> {"pm", "random_debug"}
      [] k = "charging" -> {"soc"}
      [] k = "energy" -> {"total_energy"}
SourceValues(k) ==
    IF k = "realtime" THEN {Null, IntOf(0), IntOf(72), EnumOf(1)}
    ELSE {Null, IntOf(3)}

\* The source objects of a kind: None, or an object with some of the
\* attributes (an object is the function from its attribute names).
SourceObjects(k) ==
    {None} \cup
    {Some(o) : o \in UNION {[D -> SourceValues(k)] :
                               D \in SUBSET SourceAttrs(k)}}

\* _json_safe_value on the values above: primitives are kept, an enum
\* member becomes its value.
json_safe_value(x) == IF x.t = "enum" THEN IntOf(x.v) ELSE x

\* _extract_material_fields with "if not value" in place of
\* "if value is None".
extract_material_fields_drops_falsy(obj, fields) ==
    IF IsNone(obj) THEN << >>
    ELSE LET o == Get(obj)
             keep == {a \in fields \cap DOMAIN o :
                        o[a] # Null /\ o[a] # IntOf(0)}
         IN  [a \in keep |-> json_safe_value(o[a])]

\* _extract_material_fields: the dict of the listed attributes the object
\* has with a value other than None (the empty dict for a None object).
extract_material_fields(obj, fields) ==
    IF IsNone(obj) THEN << >>
    ELSE LET o == Get(obj)
             keep == {a \in fields \cap DOMAIN o : o[a] # Null}
         IN  [a \in keep |-> json_safe_value(o[a])]

\* build_telemetry_material_snapshot: a kind gets an entry when its
\* extracted dict is not empty.
build_telemetry_material_snapshot(sources) ==
    LET part(k) == extract_material_fields(sources[k], material_fields(k))
        kept == {k \in SnapshotKinds : DOMAIN part(k) # {}}
    IN  [k \in kept |-> part(k)]

InitSnapshot ==
    /\ InitCoordinators(FALSE)
    /\ vg = NoGuardCall
    /\ ent = NoEntity("lock", FALSE)
    /\ api = NoApi(FALSE)
    /\ \E realtime \in SourceObjects("realtime"),
          hvac \in SourceObjects("hvac"),
          charging \in SourceObjects("charging"),
          energy \in SourceObjects("energy") :
         fr = [sources |-> [realtime |-> realtime, hvac |-> hvac,
                            charging |-> charging, energy |-> energy],
               result |-> << >>, called |-> FALSE]

\* The call build_telemetry_material_snapshot(realtime=..., hvac=...,
\* charging=..., energy=...).
build_snapshot_call ==
    /\ ~fr.called
    /\ fr' = [fr EXCEPT !.result = build_telemetry_material_snapshot(fr.sources),
                        !.called = TRUE]
    /\ ev' = Step("snapshot", "ok")
    /\ UNCHANGED << now, telemetry_vars, sw, gps, vg, ent, api >>

NextSnapshot == build_snapshot_call

SpecSnapshot == InitSnapshot /\ [][NextSnapshot]_vars

\* ------------------------------------------------------------ snapshot_digest
\* A Python dict is the sequence of its (key, value) pairs in insertion
\* order.  The insertion order of build_telemetry_material_snapshot is
\* the order of its four "if ..._fields" blocks, and inside a kind the
\* order of the whitelist tuple.
KIND_INSERTION_ORDER == << "realtime", "hvac", "charging", "energy" >>
FIELD_INSERTION_ORDER ==
    << "elec_percent", "endurance_mileage", "total_mileage", "speed",
       "temp_in_car", "left_front_tire_pressure",
       "right_front_tire_pressure", "left_rear_tire_pressure",
       "right_rear_tire_pressure",
       "temp_out_car", "pm",
       "soc", "full_hour", "full_minute",
       "total_energy", "avg_energy_consumption" >>

\* The pairs of the mapping f, inserted in the order of the sequence order.
as_dict(f, order) ==
    LET ks == SelectSeq(order, LAMBDA k : k \in DOMAIN f)
    IN  [i \in 1..Len(ks) |-> << ks[i], f[ks[i]] >>]

\* The dict build_telemetry_material_snapshot returns, in the insertion
\* order of the code.
snapshot_dict(sources) ==
    LET snap == build_telemetry_material_snapshot(sources)
        inner == [k \in DOMAIN snap |-> as_dict(snap[k], FIELD_INSERTION_ORDER)]
    IN  as_dict(inner, KIND_INSERTION_ORDER)

\* The order of Python's str comparison on the keys a snapshot can have.
ALPHABETICAL_KEYS ==
    << "avg_energy_consumption", "charging", "elec_percent",
       "endurance_mileage", "energy", "full_hour", "full_minute", "hvac",
       "left_front_tire_pressure", "left_rear_tire_pressure", "pm",
       "realtime", "right_front_tire_pressure", "right_rear_tire_pressure",
       "soc", "speed", "temp_in_car", "temp_out_car", "total_energy",
       "total_mileage" >>
key_rank(k) ==
    CHOOSE i \in 1..Len(ALPHABETICAL_KEYS) : ALPHABETICAL_KEYS[i] = k

\* json.dumps without sort_keys: the pairs are written in insertion order.
insertion_order_keys(d) == d

\* sort_keys=True of json.dumps: the pairs of a dict are written in the
\* order of their keys.
sort_keys(d) ==
    LET n == Len(d)
        pos(i) == Cardinality({j \in 1..n :
                      key_rank(d[j][1]) < key_rank(d[i][1])}) + 1
    IN  [p \in 1..n |-> d[CHOOSE i \in 1..n : pos(i) = p]]

\* json.dumps that writes every scalar as the same text.
json_dumps_blank_values(snapshot) ==
    sort_keys([i \in 1..Len(snapshot) |->
        << snapshot[i][1],
           sort_keys([j \in 1..Len(snapshot[i][2]) |->
               << snapshot[i][2][j][1], Null >>]) >>])

\* json.dumps(snapshot, ensure_ascii=False, separators=(",", ":"),
\* sort_keys=True) on a snapshot: a dict of dicts of scalars.  The text
\* is the sequence of pairs it writes; a scalar is written as itself.
json_dumps(snapshot) ==
    sort_keys([i \in 1..Len(snapshot) |->
        << snapshot[i][1], sort_keys(snapshot[i][2]) >>])

\* hashlib.sha256(...).hexdigest(): two texts have the same digest only
\* when they are the same text.
sha256(payload) == << "sha256", payload >>

\* snapshot_digest: None for an empty snapshot.
snapshot_digest(snapshot) ==
    IF snapshot = << >> THEN None
    ELSE Some(sha256(json_dumps(snapshot)))

\* The source objects of the digest comparison: a realtime object with
\* some of elec_percent, speed and timestamp, an hvac object with or
\* without pm, no charging and no energy object.
DigestAttrValues(k) ==
    IF k = "realtime"
    THEN [elec_percent |-> {Null, IntOf(72), IntOf(73), EnumOf(72)},
          speed |-> {IntOf(0)},
          timestamp |-> {IntOf(1), IntOf(2)}]
    ELSE [pm |-> {IntOf(3)}]
DigestObjects(k) ==
    {None} \cup
    {Some(o) : o \in UNION {
        {f \in [D -> UNION {DigestAttrValues(k)[a] : a \in D}] :
            \A a \in D : f[a] \in DigestAttrValues(k)[a]} :
        D \in SUBSET DOMAIN DigestAttrValues(k)}}
DigestSources ==
    {[realtime |-> r, hvac |-> h, charging |-> None, energy |-> None] :
        r \in DigestObjects("realtime"), h \in DigestObjects("hvac")}

\* All insertion orders of the keys in S.
Orders(S) ==
    {s \in [1..Cardinality(S) -> S] : \A x \in S : \E i \in DOMAIN s : s[i] = x}
DigestFields == {"elec_percent", "speed", "pm"}

InitDigest ==
    /\ InitCoordinators(FALSE)
    /\ vg = NoGuardCall
    /\ ent = NoEntity("lock", FALSE)
    /\ api = NoApi(FALSE)
    /\ \E a \in DigestSources, b \in DigestSources :
         fr = [sources |-> a, other |-> b, called |-> FALSE,
               reordered |-> << >>, digest |-> None,
               other_digest |-> None, reordered_digest |-> None]

\* The calls snapshot_digest(build_telemetry_material_snapshot(...)) on
\* the two sets of source objects, and snapshot_digest on a dict with
\* the pairs of the first snapshot inserted in any other order.
snapshot_digest_call ==
    /\ ~fr.called
    /\ LET snap == build_telemetry_material_snapshot(fr.sources) IN
       \E top \in Orders(DOMAIN snap), fields \in Orders(DigestFields) :
         LET inner == [k \in DOMAIN snap |-> as_dict(snap[k], fields)]
             d == as_dict(inner, top)
         IN  fr' = [fr EXCEPT
                 !.called = TRUE,
                 !.reordered = d,
                 !.digest = snapshot_digest(snapshot_dict(fr.sources)),
                 !.other_digest = snapshot_digest(snapshot_dict(fr.other)),
                 !.reordered_digest = snapshot_digest(d)]
    /\ ev' = Step("digest", "ok")
    /\ UNCHANGED << now, telemetry_vars, sw, gps, vg, ent, api >>

NextDigest == snapshot_digest_call

SpecDigest == InitDigest /\ [][NextDigest]_vars

\* -------------------------------------------------------- command entities
\* BydLock, BydBatteryHeatSwitch and BydSeatClimateSelect: each keeps the
\* commanded value in _last_locked / _last_state / _pending_value, issues
\* its commands through _execute_command and reads one value from
\* coordinator.data.  The select has two options: "off" (FALSE) and a
\* level (TRUE).
EntityKinds == {"lock", "battery_heat", "seat_select"}
OptBool == {None, Some(TRUE), Some(FALSE)}

\* _seat_status_to_option: a missing status reads as "off".
seat_status_to_option(c) == IF IsNone(c) THEN FALSE ELSE Get(c)

\* BydVehicleEntity._is_command_confirmed (not overridden by BydLock),
\* BydBatteryHeatSwitch._is_command_confirmed and
\* BydSeatClimateSelect._is_command_confirmed.
is_command_confirmed(e) ==
    IF e.kind = "lock" THEN TRUE
    ELSE IF IsNone(e.last_state) THEN TRUE
    ELSE IF e.kind = "seat_select"
         THEN seat_status_to_option(e.cache) = Get(e.last_state)
    ELSE IF IsNone(e.cache) THEN FALSE
    ELSE Get(e.cache) = Get(e.last_state)

\* BydLock.is_locked / BydBatteryHeatSwitch.is_on /
\* BydSeatClimateSelect.current_option: the value shown.
shown_state(e) ==
    IF e.kind = "seat_select"
    THEN IF ~IsNone(e.last_state) \/ e.command_pending THEN e.last_state
         ELSE Some(seat_status_to_option(e.cache))
    ELSE IF e.command_pending THEN e.last_state
    ELSE IF ~IsNone(e.cache) THEN e.cache
    ELSE e.last_state

\* BydSeatClimateSelect._handle_coordinator_update before it calls super:
\* a confirmed _pending_value is dropped.  The other kinds do not override
\* the method.
select_clear_pending(e) ==
    IF e.kind = "seat_select" /\ ~IsNone(e.last_state)
       /\ is_command_confirmed(e)
    THEN [e EXCEPT !.last_state = None]
    ELSE e

\* _handle_coordinator_update at time t: the select's override, then
\* BydVehicleEntity._handle_coordinator_update.
handle_coordinator_update(e, t) ==
    LET s == select_clear_pending(e)
        ttl_expired == /\ ~IsNone(s.commanded_at)
                       /\ t - Get(s.commanded_at) >= OPTIMISTIC_TTL_SECONDS
    IN  IF s.command_pending /\ (is_command_confirmed(s) \/ ttl_expired)
        THEN [s EXCEPT !.command_pending = FALSE, !.commanded_at = None]
        ELSE s

\* How _execute_command ends when api.async_call raised the given class
\* ("": it returned).
execute_command_result(raised) ==
    IF raised = "" THEN "ok"
    ELSE IF raised = "BydRemoteControlError" THEN "soft"
    ELSE "HomeAssistantError"

\* _execute_command with the on_rollback call left out of its last handler.
execute_command_without_rollback(e, raised, t) ==
    IF execute_command_result(raised) = "HomeAssistantError"
    THEN [e EXCEPT !.pc = "idle"]
    ELSE [e EXCEPT !.command_pending = TRUE, !.commanded_at = Some(t),
                   !.commanded = e.last_state, !.pc = "idle"]

\* _execute_command from the return of api.async_call on: the entity after
\* it.  on_rollback of every kind sets the commanded value to None.
execute_command(e, raised, t) ==
    IF execute_command_result(raised) = "HomeAssistantError"
    THEN [e EXCEPT !.last_state = None, !.rollbacks = @ + 1, !.pc = "idle"]
    ELSE [e EXCEPT !.command_pending = TRUE, !.commanded_at = Some(t),
                   !.commanded = e.last_state, !.pc = "idle"]

InitEntity ==
    /\ InitCoordinators(FALSE)
    /\ vg = NoGuardCall
    /\ api = NoApi(FALSE)
    /\ fr = NoSnapshotCall
    /\ \E kind \in EntityKinds, registered \in BOOLEAN :
         ent = NoEntity(kind, registered)

\* async_lock / async_unlock / async_turn_on / async_turn_off /
\* async_select_option up to the
\* await in _execute_command: the commanded value is stored first.
command_start ==
    /\ ent.pc = "idle"
    /\ \E v \in BOOLEAN :
         ent' = [ent EXCEPT !.last_state = Some(v), !.pc = "calling",
                            !.rollbacks = 0]
    /\ ev' = NoEvent
    /\ UNCHANGED << now, telemetry_vars, sw, gps, vg, api, fr >>

\* api.async_call returns to _execute_command: the command call returned,
\* or raised e on the first attempt or on the retry that follows a
\* BydSessionExpiredError.
command_return ==
    /\ ent.pc = "calling"
    /\ \/ /\ ent' = execute_command(ent, "", now)
          /\ ev' = Event("command", "ok", "", {}, {"command"}, None, "none")
       \/ \E e \in COMMAND_ERRORS, attempt \in {1, 2} :
            LET raised == async_call_raises(e, attempt) IN
            /\ raised # "retry"
            /\ ent' = execute_command(ent, raised, now)
            /\ ev' = Event("command", execute_command_result(raised), e, {},
                           IF attempt = 1 THEN {"command"}
                           ELSE {"command", "command_retry"},
                           None, "none")
    /\ UNCHANGED << now, telemetry_vars, sw, gps, vg, api, fr >>

\* The coordinator publishes data (a poll cycle, a push) in which the
\* entity's value is c, and the entity's listener runs.
coordinator_update ==
    /\ \E c \in OptBool :
         ent' = handle_coordinator_update([ent EXCEPT !.cache = c], now)
    /\ ev' = Step("update", "ok")
    /\ UNCHANGED << now, telemetry_vars, sw, gps, vg, api, fr >>

\* BydApi._handle_command_ack: for a registered coordinator the listeners
\* are nudged with the unchanged data and the two delayed fetches are
\* scheduled; for an unknown VIN nothing happens.
handle_command_ack ==
    /\ IF ent.registered
       THEN /\ ent.tasks + 2 <= MaxAckTasks
            /\ ent' = [handle_coordinator_update(ent, now)
                         EXCEPT !.tasks = @ + 2]
       ELSE ent' = ent
    /\ ev' = Step("ack", IF ent.registered THEN "ok" ELSE "unknown_vin")
    /\ UNCHANGED << now, telemetry_vars, sw, gps, vg, api, fr >>

\* A delayed fetch scheduled by the ack wakes up: its failure is swallowed,
\* its value is published like any update.
delayed_fetch ==
    /\ ent.tasks > 0
    /\ \/ /\ ent' = [ent EXCEPT !.tasks = @ - 1]
          /\ ev' = Step("delayed_fetch", "swallowed")
       \/ \E c \in OptBool :
            /\ ent' = handle_coordinator_update(
                         [ent EXCEPT !.cache = c, !.tasks = @ - 1], now)
            /\ ev' = Step("delayed_fetch", "ok")
    /\ UNCHANGED << now, telemetry_vars, sw, gps, vg, api, fr >>

\* The monotonic clock advances.
entity_tick ==
    /\ now + EntityTickStep <= MaxEntityTime
    /\ now' = now + EntityTickStep
    /\ ev' = NoEvent
    /\ UNCHANGED << telemetry_vars, sw, gps, vg, ent, api, fr >>

NextEntity ==
    \/ command_start
    \/ command_return
    \/ coordinator_update
    \/ handle_command_ack
    \/ delayed_fetch
    \/ entity_tick

SpecEntity == InitEntity /\ [][NextEntity]_vars

\* The entity under the event loop's guarantees: the clock advances, an
\* awaited command call comes back and a sleeping delayed fetch wakes up.
\* Published updates and acknowledgements are not guaranteed: polling can be
\* disabled and the broker can stay silent.
SpecEntityFair ==
    /\ SpecEntity
    /\ WF_vars(entity_tick)
    /\ WF_vars(command_return)
    /\ WF_vars(delayed_fetch)

\* ------------------------------------------------------------ properties
\* The optimistic patch async_turn_on writes: A/C on at the default target.
OnPatch == [ac |-> TRUE, temp |-> DEFAULT_TEMP_C]

\* The guard is armed with the given expected value and has not expired.
ArmedBeforeExpiry(expected) ==
    /\ optimistic_ac_expected = Some(expected)
    /\ ~IsNone(optimistic_hvac_until)
    /\ now < Get(optimistic_hvac_until)

\* The step hands a fetched climate candidate to the guard check, on either
\* path (the poll cycle's climate fetch or async_fetch_hvac).
CandidateStep == ev'.op \in {"poll", "fetch_hvac"} /\ ~IsNone(ev'.cand)

\* C1: while the guard is armed with expected power=on, less than 60s have
\* passed since arming and the cache's climate value is the optimistic patch
\* (power=on), a poll cycle or forced climate fetch whose fetched climate
\* value reports power=off leaves that patch as the cache's climate value.
C1_PatchSurvivesContradictingFetch ==
    [][ (/\ ArmedBeforeExpiry(TRUE)
         /\ ~IsNone(data) /\ Get(data).hvac = Some(OnPatch)
         /\ CandidateStep /\ ~Get(ev'.cand).ac)
        => (~IsNone(data') /\ Get(data').hvac = Some(OnPatch)) ]_vars

\* C2: with the guard armed and not expired, a fetched candidate whose A/C
\* power differs from expected is rejected on both paths: it becomes neither
\* _last_hvac nor the cache's climate value, and both guard fields stay.
C2_ContradictingCandidateRejected ==
    [][ (\E x \in BOOLEAN : ArmedBeforeExpiry(x) /\ CandidateStep
                            /\ Get(ev'.cand).ac # x)
        => /\ last_hvac' = last_hvac
           /\ last_hvac' # ev'.cand
           /\ (IsNone(data') \/ Get(data').hvac # ev'.cand)
           /\ optimistic_hvac_until' = optimistic_hvac_until
           /\ optimistic_ac_expected' = optimistic_ac_expected ]_vars

\* C2 witness: a poll cycle has just rejected a candidate, the guard is
\* still armed.
C2_Witness ==
    /\ ev.op = "poll" /\ ev.verdict = "rejected"
    /\ ~IsNone(optimistic_hvac_until)
    /\ Some(Get(ev.cand).ac) # optimistic_ac_expected

\* C3: a candidate is accepted (becomes _last_hvac) exactly when there is no
\* guard, the clock has reached expiresAt, or its A/C power equals expected;
\* an acceptance with a guard present clears both guard fields; a guard is
\* only ever set to now + 60s, so nothing is rejected 60s after the last arm.
C3_AcceptIffAndClears ==
    [][ /\ CandidateStep =>
           LET ok == \/ IsNone(optimistic_hvac_until)
                     \/ now >= Get(optimistic_hvac_until)
                     \/ Some(Get(ev'.cand).ac) = optimistic_ac_expected
           IN  /\ ok <=> last_hvac' = ev'.cand
               /\ ok => IsNone(optimistic_hvac_until')
                        /\ IsNone(optimistic_ac_expected')
               /\ ~ok => /\ optimistic_hvac_until' = optimistic_hvac_until
                         /\ optimistic_ac_expected' = optimistic_ac_expected
                         /\ last_hvac' = last_hvac
        /\ (optimistic_hvac_until' # optimistic_hvac_until
            /\ ~IsNone(optimistic_hvac_until'))
           => Get(optimistic_hvac_until') = now + OPTIMISTIC_HVAC_GUARD_TTL_S
      ]_vars

\* C3 witness: a candidate contradicting the guard was accepted because the
\* guard had expired, and the guard is gone.
C3_Witness ==
    /\ ev.verdict = "expired"
    /\ last_hvac = ev.cand
    /\ IsNone(optimistic_hvac_until) /\ IsNone(optimistic_ac_expected)

\* C4: right after a start-climate command ended in success or soft failure
\* the cache's climate value is power=on at the commanded temperature and
\* the guard is armed with expected=true.
C4_StartClimateShowsInCache ==
    (ev.op = "car_on" /\ ev.res \in {"ok", "soft"})
    => /\ ~IsNone(data)
       /\ Get(data).hvac = Some(OnPatch)
       /\ optimistic_ac_expected = Some(TRUE)
       /\ optimistic_hvac_until = Some(now + OPTIMISTIC_HVAC_GUARD_TTL_S)

\* The step is the one at which the realtime fetch of a cycle's attempt ends
\* and the attempt either goes on to the climate fetch or ends the cycle.
RealtimeStepEnds == pc = "realtime" /\ pc' \in {"hvac", "idle"}

\* The same, the fetch having returned a value or failed with a recoverable
\* error (no exception left the handler).
RealtimeFetchCompleted == RealtimeStepEnds /\ ev'.err = ""

\* The gating realtime value of that step: freshly fetched, else last cached.
GatingRealtime ==
    IF pc' = "hvac" THEN OrElse(cyc'.realtime, last_realtime)
    ELSE last_realtime'

\* The condition under which the climate endpoint is to be called.
ClimateWanted ==
    \/ IsNone(last_hvac)
    \/ cyc.force
    \/ (~IsNone(GatingRealtime) /\ Get(GatingRealtime).on)

\* C5 (as stated): in every cycle that is not skipped the climate endpoint
\* is called if and only if _last_hvac is None, or the cycle is forced, or
\* the gating realtime value (fresh, else last cached) reports power on.
C5_ClimateFetchedIffInEveryCycle ==
    [][ RealtimeStepEnds => ((pc' = "hvac") <=> ClimateWanted) ]_vars

\* C5 (amended): in a cycle that is not skipped and whose realtime fetch
\* returned or failed with a recoverable error, the climate endpoint is
\* called if and only if _last_hvac is None, or the cycle is forced, or the
\* gating realtime value reports power on; the call is then really made.
C5_ClimateFetchedIff ==
    [][ /\ RealtimeFetchCompleted => ((pc' = "hvac") <=> ClimateWanted)
        /\ (pc = "hvac" /\ ev'.op = "poll") => "hvac" \in ev'.calls
        /\ (RealtimeStepEnds /\ pc' = "idle")
           => ev'.calls = cyc.calls \cup {"realtime"} ]_vars

\* C5 witness: a forced cycle is waiting for the climate endpoint although a
\* climate value is cached and the gating realtime reports power off.
C5_Witness ==
    /\ pc = "hvac" /\ cyc.force
    /\ ~IsNone(last_hvac)
    /\ OrElse(cyc.realtime, last_realtime) = Some([on |-> FALSE])

\* The realtime fetch of a non-forced cycle completes with the vehicle
\* reported off while _last_hvac holds a value.
OffCycleStep ==
    /\ RealtimeFetchCompleted
    /\ ~cyc.force
    /\ ~IsNone(last_hvac)
    /\ GatingRealtime = Some([on |-> FALSE])

\* C6 (as stated): with the vehicle off and a climate value cached, a
\* non-forced cycle fetches realtime only and leaves the cache's climate
\* value exactly as it was before.
C6_OffCycleKeepsCacheClimate ==
    [][ (OffCycleStep /\ ~IsNone(data) /\ ~IsNone(Get(data).hvac))
        => /\ pc' = "idle"
           /\ ~IsNone(data')
           /\ Get(data').hvac = Get(data).hvac ]_vars

\* C6 (amended): with the vehicle off and a climate value in _last_hvac, a
\* non-forced cycle makes no climate call after its realtime fetch, leaves
\* _last_hvac as it was and succeeds with a result that has no climate
\* value, so the cache's climate entry is empty after the cycle.
C6_OffCycleDropsCacheClimate ==
    [][ OffCycleStep
        => /\ pc' = "idle"
           /\ ev'.res = "ok"
           /\ ev'.calls = cyc.calls \cup {"realtime"}
           /\ last_hvac' = last_hvac
           /\ ~IsNone(data')
           /\ IsNone(Get(data').hvac)
           /\ Get(data').realtime = Some([on |-> FALSE]) ]_vars

\* C6 witness: a cycle that called realtime only has just succeeded, the
\* vehicle is off, _last_hvac holds a value and the cache has no climate.
C6_Witness ==
    /\ ev.op = "poll" /\ ev.res = "ok" /\ ev.calls = {"realtime"}
    /\ last_realtime = Some([on |-> FALSE])
    /\ ~IsNone(last_hvac)
    /\ ~IsNone(data) /\ IsNone(Get(data).hvac)

\* The step ends a telemetry cycle whose fetches ran to the bookkeeping.
PollFinishes ==
    pc # "idle" /\ pc' = "idle" /\ ev'.res \in {"ok", "UpdateFailed"}

\* The step ends a location cycle whose fetch failed with a recoverable error.
GpsFetchFails == gps.pc = "gps" /\ "gps" \in ev'.failures

\* The realtime and the location kind are never emptied by a cycle whose
\* fetch of the kind failed with a recoverable error.
RealtimeAndLocationKept ==
    /\ (/\ PollFinishes /\ "realtime" \in ev'.failures
        /\ ~IsNone(data) /\ ~IsNone(Get(data).realtime))
       => (~IsNone(data') /\ Get(data').realtime = Get(data).realtime)
    /\ (GpsFetchFails /\ ~IsNone(gps.data) /\ ~IsNone(Get(gps.data).gps))
       => gps'.data = gps.data

\* The climate kind has a value in the cache and the cycle's climate fetch
\* fails with a recoverable error.
ClimateFetchFails ==
    /\ PollFinishes /\ "hvac" \in ev'.failures
    /\ ~IsNone(data) /\ ~IsNone(Get(data).hvac)

\* C7 (as stated): for realtime, climate and location, once the kind has a
\* value in the cache, a cycle whose fetch of that kind fails with a
\* recoverable error leaves the cached value in place.
C7_FailedFetchKeepsEveryKind ==
    [][ /\ RealtimeAndLocationKept
        /\ ClimateFetchFails
           => (~IsNone(data') /\ Get(data').hvac = Get(data).hvac) ]_vars

\* C7 (amended): realtime and location are kept as stated.  For climate
\* _last_hvac is kept, and the cache keeps its climate value exactly when
\* the cycle's effective realtime reports the vehicle on; otherwise the
\* cycle's result has no climate value.
C7_FailedFetchKeepsKindWhileOn ==
    [][ /\ RealtimeAndLocationKept
        /\ ClimateFetchFails
           => /\ last_hvac' = last_hvac
              /\ ev'.res = "ok"
              /\ Get(data').hvac = IF Get(Get(data').realtime).on
                                   THEN Get(data).hvac ELSE None ]_vars

\* C7 witness: a cycle whose climate fetch failed has just succeeded with the
\* vehicle on; the cache still has the climate value, and the location
\* cache holds a fix.
C7_Witness ==
    /\ ev.op = "poll" /\ ev.res = "ok" /\ "hvac" \in ev.failures
    /\ last_realtime = Some([on |-> TRUE])
    /\ ~IsNone(last_hvac)
    /\ ~IsNone(data) /\ Get(data).hvac = last_hvac
    /\ ~IsNone(gps.data) /\ ~IsNone(Get(gps.data).gps)

\* The step ends a telemetry cycle that was not skipped.
PollEnds == pc # "idle" /\ pc' = "idle"

\* Realtime was obtained neither from the network in the ending attempt nor
\* from _last_realtime.
NoRealtimeAtAll ==
    /\ pc = "realtime" \/ IsNone(cyc.realtime)
    /\ IsNone(last_realtime)

RealtimeAuthFailure ==
    pc = "realtime" /\ ev'.op = "poll" /\ ev'.err \in AUTH_ERRORS

TelemetryCycleStarts == pc = "idle" /\ (pc' = "realtime" \/ ev'.op = "poll")
GpsCycleStarts == gps.pc = "idle" /\ (gps'.pc = "gps" \/ ev'.op = "gps_poll")

\* C10: for both coordinators a cycle starting with polling disabled and no
\* force pending makes no remote call and returns the cache unchanged, or
\* the identity-only placeholder when there is none; what it returns is a
\* cache, so the next such cycle returns the same contents.
C10_DisabledCycleReturnsCache ==
    [][ /\ (TelemetryCycleStarts /\ ~polling_enabled /\ ~force_next_refresh)
           => /\ pc' = "idle"
              /\ ev'.res = "skipped" /\ ev'.calls = {}
              /\ data' = (IF IsNone(data) THEN Some(Placeholder) ELSE data)
              /\ ~IsNone(data')
              /\ UNCHANGED << last_realtime, last_hvac >>
        /\ (GpsCycleStarts /\ ~gps.polling_enabled /\ ~gps.force_next_refresh)
           => /\ gps'.pc = "idle"
              /\ ev'.res = "skipped" /\ ev'.calls = {}
              /\ gps'.data = (IF IsNone(gps.data) THEN Some(GpsPlaceholder)
                              ELSE gps.data)
              /\ ~IsNone(gps'.data) ]_vars

\* C10 witness: with polling disabled, a location cycle has just been
\* skipped and returned the placeholder, the telemetry cache being there.
C10_Witness ==
    /\ ev.op = "gps_poll" /\ ev.res = "skipped"
    /\ ~polling_enabled /\ ~gps.polling_enabled
    /\ gps.data = Some(GpsPlaceholder)
    /\ ~IsNone(data) /\ ~IsNone(Get(data).realtime)

\* C11: a force request makes the next telemetry cycle fetch even with
\* polling disabled; the flag is false as soon as a cycle has started,
\* whatever the cycle's outcome, only async_force_refresh sets it, and a
\* later cycle with polling disabled and no new request is skipped.
C11_ForceConsumedByOneCycle ==
    [][ /\ TelemetryCycleStarts
           => /\ force_next_refresh' = FALSE
              /\ force_next_refresh => (pc' = "realtime" /\ cyc'.force)
              /\ (~force_next_refresh /\ ~polling_enabled)
                 => (pc' = "idle" /\ ev'.res = "skipped")
        /\ (force_next_refresh' /\ ~force_next_refresh)
           => sw'.delayed # sw.delayed
        /\ (pc # "idle" /\ pc' = "idle")
           => force_next_refresh' = force_next_refresh ]_vars

\* C11 witness: with polling disabled a forced cycle is fetching realtime
\* and the flag is already false.
C11_Witness ==
    /\ ~polling_enabled
    /\ pc = "realtime" /\ cyc.force
    /\ ~force_next_refresh

\* C12: a recoverable failure of the location fetch fails the location
\* cycle only when no location is cached; with a cached location the cycle
\* is reported successful and the cached location is kept.
C12_GpsFailureWithCacheSucceeds ==
    [][ GpsFetchFails
        => IF ~IsNone(gps.data) /\ ~IsNone(Get(gps.data).gps)
           THEN ev'.res = "ok" /\ gps'.data = gps.data
           ELSE ev'.res = "UpdateFailed" ]_vars

\* The step ends a location cycle in success.
GpsCycleSucceeds == gps.pc = "gps" /\ ev'.op = "gps_poll" /\ ev'.res = "ok"

\* C13: after every successful location cycle the current interval is the
\* active interval with smart polling and the vehicle on, the inactive
\* interval with smart polling and the vehicle not on, the fixed interval
\* without smart polling; it is the scheduling interval while polling is
\* enabled.
C13_IntervalAfterGpsCycle ==
    [][ GpsCycleSucceeds
        => LET on == ~IsNone(last_realtime) /\ Get(last_realtime).on
               expected == IF ~gps.smart_polling
                           THEN DEFAULT_GPS_POLL_INTERVAL
                           ELSE IF on THEN DEFAULT_GPS_ACTIVE_INTERVAL
                           ELSE DEFAULT_GPS_INACTIVE_INTERVAL
           IN  /\ gps'.current_interval = expected
               /\ gps'.smart_polling = gps.smart_polling
               /\ gps'.update_interval =
                    IF gps.polling_enabled THEN Some(expected)
                    ELSE gps.update_interval ]_vars

\* C13 witness: with smart polling a location cycle has just succeeded while
\* the vehicle is on, and the current interval is the active one.
C13_Witness ==
    /\ ev.op = "gps_poll" /\ ev.res = "ok"
    /\ gps.smart_polling
    /\ last_realtime = Some([on |-> TRUE])
    /\ gps.current_interval = DEFAULT_GPS_ACTIVE_INTERVAL

\* The incoming fix is one the null-island filter is to refuse: both
\* coordinates within the threshold of (0,0), or a coordinate missing.
InvalidFix(fix) ==
    \/ IsNone(fix.lat)
    \/ IsNone(fix.lon)
    \/ /\ Abs(Get(fix.lat)) < GPS_NULL_ISLAND_THRESHOLD
       /\ Abs(Get(fix.lon)) < GPS_NULL_ISLAND_THRESHOLD

\* C14: guard_gps_coordinates(previous, incoming) returns incoming when
\* previous is None; with a previous fix it returns previous when incoming
\* is within the null-island threshold of (0,0) or lacks a coordinate
\* (latitude or longitude), and incoming for any other incoming fix.
C14_GuardGpsCoordinates ==
    (vg.called /\ ~IsNone(vg.incoming))
    => vg.result = IF IsNone(vg.previous) THEN vg.incoming
                   ELSE IF InvalidFix(Get(vg.incoming)) THEN vg.previous
                   ELSE vg.incoming

\* The step stores a fetched location fix that the null-island filter is
\* to refuse while the location cache holds a valid fix.
InvalidFixFetchedOverValid ==
    /\ ev'.op \in {"gps_poll", "fetch_gps"} /\ ev'.res = "ok"
    /\ InvalidFix(Get(ev'.cand))
    /\ ~IsNone(gps.data) /\ ~IsNone(Get(gps.data).gps)
    /\ ~InvalidFix(Get(Get(gps.data).gps))

\* C15: when the location cache holds a valid fix and a location cycle or a
\* forced location fetch gets a fix at null island or without a coordinate,
\* the cache still holds the earlier valid fix afterwards.
C15_InvalidFixKeepsCachedFix ==
    [][ InvalidFixFetchedOverValid => gps'.data = gps.data ]_vars

\* The step is the return of a command's remote call to _execute_command.
CommandReturns == ent.pc = "calling" /\ ev'.op = "command"

\* C16: when the remote call of a command ends in BydRemoteControlError,
\* _execute_command treats it as success: no rollback, no error to the
\* caller, and the entity ends with command_pending set and commanded_at
\* stamped, as after a successful call.
C16_SoftFailureIsOptimisticSuccess ==
    [][ (CommandReturns /\ ev'.err = "BydRemoteControlError")
        => /\ ev'.res = "soft"
           /\ ent'.rollbacks = 0
           /\ ent'.last_state = ent.last_state
           /\ ent'.command_pending
           /\ ent'.commanded_at = Some(now) ]_vars

C18_CommandSchedulesDelayedFetch ==
    [][ (CommandReturns /\ ev'.res \in {"ok", "soft"})
        => ent'.tasks > ent.tasks ]_vars

\* The step is a delayed confirmation fetch whose remote call failed.
DelayedFetchFails ==
    /\ ev'.op \in {"fetch_hvac", "fetch_realtime"}
    /\ ev'.err # ""

\* C19: a failure of any kind inside a delayed confirmation fetch is
\* swallowed: the task ends without raising, and the cache, _last_realtime,
\* _last_hvac and the optimistic guard are left as they were.
C19_DelayedFetchFailureSwallowed ==
    [][ DelayedFetchFails
        => /\ ev'.res = "swallowed"
           /\ UNCHANGED << data, last_realtime, last_hvac,
                           optimistic_hvac_until, optimistic_ac_expected >> ]_vars

\* C19 witness: a delayed realtime fetch has just failed with an
\* authentication error while a cache, a climate value and an armed guard
\* exist.
C19_Witness ==
    /\ ev.op = "fetch_realtime" /\ ev.res = "swallowed"
    /\ ev.err \in AUTH_ERRORS
    /\ ~IsNone(data) /\ ~IsNone(last_hvac)
    /\ ~IsNone(optimistic_hvac_until)

\* C20: while a command is pending and its value is the entity's optimistic
\* state, the value shown after every coordinator update (a published
\* update, the ack's nudge, a delayed fetch) is the commanded value, until
\* the cache matches it or 300s have passed since the command.
C20_ShownValueHeldWhilePending ==
    [][ (/\ ent.command_pending /\ ent.pc = "idle"
         /\ ent.last_state = ent.commanded
         /\ ev'.op \in {"update", "ack", "delayed_fetch"}
         /\ ent'.cache # ent.commanded
         /\ now - Get(ent.commanded_at) < OPTIMISTIC_TTL_SECONDS)
        => shown_state(ent') = ent.commanded ]_vars

\* The step ran the entity's _handle_coordinator_update.
UpdateProcessed ==
    /\ ev'.op \in {"update", "ack", "delayed_fetch"}
    /\ ev'.res = "ok"

\* The step is the first update processed after the pending command's TTL
\* has lapsed, and the cache has a value.
UpdateAfterTtl ==
    /\ UpdateProcessed
    /\ ent.command_pending /\ ~IsNone(ent.commanded_at)
    /\ now - Get(ent.commanded_at) >= OPTIMISTIC_TTL_SECONDS
    /\ ~IsNone(ent'.cache)

\* C21: the first coordinator update processed 300s or more after the
\* command ends the optimistic hold of every commanding entity, the seat
\* select included, even if the cache never matched: command_pending
\* becomes false and the entity shows the cache's value.
C21_TtlEndsOptimisticHold ==
    [][ UpdateAfterTtl
        => /\ ~ent'.command_pending
           /\ shown_state(ent') = ent'.cache ]_vars

\* A command is pending and its TTL has lapsed.
PendingPastTtl ==
    /\ ent.command_pending /\ ~IsNone(ent.commanded_at)
    /\ now - Get(ent.commanded_at) >= OPTIMISTIC_TTL_SECONDS

\* C22: a command-pending state always ends: once the 300s TTL has lapsed,
\* command_pending returns to false even if no coordinator update ever
\* arrives, so the entity never stays pending past its TTL for ever.
C22_PendingEndsAfterTtl == []<>(~PendingPastTtl)

\* The step is a realtime push dispatched by BydApi._handle_vehicle_info.
PushStep == ev'.op = "push"

AckStep == ev'.op = "command_ack"

\* What an acknowledgement step does: for a registered VIN exactly one
\* climate fetch and one realtime fetch are added, each due 3s later; for
\* an unknown VIN none is added.  The coordinator's state is untouched.
AckSchedulesBoth ==
    /\ UNCHANGED << telemetry_vars, sw, gps >>
    /\ IF api.registered
       THEN /\ ev'.res = "ok"
            /\ Cardinality(api'.scheduled \ api.scheduled) = 2
            /\ api.scheduled \subseteq api'.scheduled
            /\ \A k \in {"hvac", "realtime"} :
                 \E t \in api'.scheduled \ api.scheduled :
                   t.kind = k /\ t.due = now + MQTT_HVAC_FETCH_DELAY_S
       ELSE /\ ev'.res = "unknown_vin"
            /\ api'.scheduled = api.scheduled

\* A delayed fetch goes on to its fetch only when its 3s are over.
WakesWhenDue ==
    \E t \in api.scheduled \ api'.scheduled :
      t.kind = ev'.res /\ now >= t.due

\* C24: an acknowledgement for a registered VIN republishes the unchanged
\* cache and schedules one delayed climate fetch and one delayed realtime
\* fetch, each starting 3s later; an acknowledgement for an unregistered
\* VIN schedules nothing and changes nothing.
C24_AckSchedulesTwoFetches ==
    [][ /\ AckStep => AckSchedulesBoth
        /\ ev'.op = "wake" => WakesWhenDue ]_vars

\* C24 witness: an acknowledgement for a registered VIN has just scheduled
\* both fetches while a cache exists.
C24_Witness ==
    /\ ev.op = "command_ack" /\ ev.res = "ok"
    /\ ~IsNone(data)
    /\ Cardinality(api.scheduled) = 2

\* The tasks whose handler awaits a remote call on the shared client.
InFlight == {t \in Tasks : api.task[t].pc = "flight"}

\* C25: at no time are two remote fetches of the same resource kind in
\* flight together, and at most one remote call is in flight on the shared
\* client, under every interleaving of poll cycles, command calls and
\* delayed confirmation fetches.
C25_OneCallInFlight ==
    /\ Cardinality(InFlight) <= 1
    /\ \A t1 \in InFlight, t2 \in InFlight :
         api.task[t1].kind = api.task[t2].kind => t1 = t2

\* The step is a remote call that raised the given error, in the handler
\* of whichever task.
CallRaised(e) == ev'.op = "call" /\ ev'.err = e

\* C27: whenever a remote call fails with BydTransportError, a fetch inside
\* a poll cycle included, the client is invalidated, so that the next call
\* creates and starts a fresh one.
C27_TransportFailureInvalidatesClient ==
    [][ CallRaised("BydTransportError")
        => /\ api'.client = 0
           /\ api.client # 0 => api'.closed = api.closed + 1 ]_vars

\* The step ends an async_call in failure after its remote call raised a
\* rate-limit, unsupported-endpoint or control-password error.
SoftClassFailure ==
    /\ ev'.op = "call"
    /\ ev'.err \in {"BydRateLimitError", "BydEndpointNotSupportedError",
                    "BydControlPasswordError"}
    /\ ev'.res \notin {"ok", "continue"}

\* C28: when a call through async_call fails with a rate-limit,
\* unsupported-endpoint or control-password error, the caller receives
\* UpdateFailed and the client is left as it was: not closed, not replaced.
C28_RateLimitKeepsClient ==
    [][ SoftClassFailure
        => /\ ev'.res = "UpdateFailed"
           /\ api'.client = api.client
           /\ api'.made = api.made
           /\ api'.closed = api.closed ]_vars

\* C28 witness: a command has just failed on a rejected control PIN, and
\* the client in use before, the second one created, is still the current
\* one.
C28_Witness ==
    /\ ev.op = "call" /\ ev.err = "BydControlPasswordError"
    /\ ev.res = "UpdateFailed" /\ ev.calls = {"command"}
    /\ api.client = 2 /\ api.closed = 1

\* C29: within one async_call the handler runs at most twice; the second
\* run starts only after the first raised a session-expired error and the
\* client was invalidated and recreated in between; a session-expired or
\* authentication error on the second run is raised as
\* ConfigEntryAuthFailed and ends the call.
C29_AtMostOneRetry ==
    [][ \A t \in Tasks :
          /\ api'.task[t].runs <= 2
          /\ api'.task[t].runs = api.task[t].runs + 1 /\ api.task[t].runs > 0
               => /\ CallRaised("BydSessionExpiredError")
                  /\ api.task[t].attempt = 1
                  /\ api'.client \notin {0, api.client}
                  /\ api'.made = api.made + 1
                  /\ api.client # 0 => api'.closed = api.closed + 1
          /\ (/\ api.task[t].attempt = 2 /\ ev'.op = "call"
              /\ ev'.calls = {t} /\ ev'.err \in AUTH_ERRORS)
               => /\ ev'.res = "ConfigEntryAuthFailed"
                  /\ api'.task[t] = IdleTask ]_vars

\* C29 witness: a call has just ended in ConfigEntryAuthFailed because its
\* second run, on a recreated client, raised a session-expired error again.
C29_Witness ==
    /\ ev.op = "call" /\ ev.err = "BydSessionExpiredError"
    /\ ev.res = "ConfigEntryAuthFailed"
    /\ api.made >= 2 /\ api.closed >= 1
    /\ \E t \in Tasks : ev.calls = {t} /\ api.task[t] = IdleTask

\* The step belongs to a telemetry poll cycle.
CycleStep == pc' # pc \/ cyc' # cyc \/ ev'.op = "poll"

\* The step completes a telemetry poll cycle successfully.
CycleCompletes == ev'.op = "poll" /\ ev'.res = "ok"

\* C26: consumers never observe a partially merged telemetry cycle: up to
\* its completion a cycle leaves the cache, _last_realtime and _last_hvac
\* as they were, a completed cycle sets them together, and a cycle that
\* fails has changed none of them.
C26_NoPartialMerge ==
    [][ /\ (CycleStep /\ ~CycleCompletes)
           => UNCHANGED << data, last_realtime, last_hvac >>
        /\ (CycleCompletes /\ "realtime" \in ev'.calls)
           => /\ ~IsNone(data')
              /\ Get(data').realtime = last_realtime'
              /\ ~IsNone(Get(data').hvac) => Get(data').hvac = last_hvac' ]_vars

\* The whitelisted attributes a source has with a value other than None.
MaterialAttrs(k, src) ==
    IF IsNone(src) THEN {}
    ELSE {a \in material_fields(k) :
            a \in DOMAIN Get(src) /\ Get(src)[a] # Null}

\* C30: build_telemetry_material_snapshot keeps, for each kind, exactly the
\* whitelisted fields that are present and non-null on the source: no other
\* field appears, no kept field is null, and a kind with no surviving field
\* (or a None source) has no entry in the snapshot.
C30_SnapshotKeepsWhitelistedNonNull ==
    fr.called =>
      \A k \in SnapshotKinds :
        LET expected == MaterialAttrs(k, fr.sources[k]) IN
        /\ DOMAIN fr.result \subseteq SnapshotKinds
        /\ expected = {} => k \notin DOMAIN fr.result
        /\ expected # {}
             => /\ k \in DOMAIN fr.result
                /\ DOMAIN fr.result[k] = expected
                /\ \A a \in expected :
                     /\ fr.result[k][a] # Null
                     /\ fr.result[k][a]
                          = json_safe_value(Get(fr.sources[k])[a])

\* C30 witness: a snapshot was built from a realtime object with speed 0,
\* a null elec_percent and a timestamp, and a climate object that has only
\* a non-whitelisted attribute: realtime keeps speed alone, climate is
\* omitted.
C30_Witness ==
    /\ fr.called
    /\ fr.sources["realtime"]
         = Some([a \in {"elec_percent", "speed", "timestamp"} |->
                   CASE a = "elec_percent" -> Null
                     [] a = "speed" -> IntOf(0)
                     [] a = "timestamp" -> IntOf(72)])
    /\ fr.sources["hvac"] = Some([a \in {"random_debug"} |-> IntOf(3)])
    /\ "realtime" \in DOMAIN fr.result
    /\ DOMAIN fr.result["realtime"] = {"speed"}
    /\ "hvac" \notin DOMAIN fr.result

\* The value a whitelisted attribute contributes: nothing when the object
\* or the attribute is missing or the attribute is None, else its
\* primitive value.
material_value(sources, k, a) ==
    IF IsNone(sources[k]) THEN None
    ELSE IF a \notin DOMAIN Get(sources[k]) THEN None
    ELSE IF Get(sources[k])[a] = Null THEN None
    ELSE Some(json_safe_value(Get(sources[k])[a]))
AgreeOnWhitelist(a, b) ==
    \A k \in SnapshotKinds : \A f \in material_fields(k) :
        material_value(a, k, f) = material_value(b, k, f)

\* C31: two sets of source objects that agree on every whitelisted field
\* (whatever their other fields, such as timestamp) have equal digests,
\* and two that differ in the value of a whitelisted field (such as
\* elec_percent) have different digests.
C31_DigestFollowsWhitelistedValues ==
    fr.called =>
        /\ AgreeOnWhitelist(fr.sources, fr.other)
             => fr.digest = fr.other_digest
        /\ ~AgreeOnWhitelist(fr.sources, fr.other)
             => fr.digest # fr.other_digest

\* The two realtime objects differ in timestamp only and the digests are
\* the same digest.
C31_Witness ==
    /\ fr.called
    /\ fr.sources["realtime"]
         = Some([elec_percent |-> IntOf(72), timestamp |-> IntOf(1)])
    /\ fr.other["realtime"]
         = Some([elec_percent |-> IntOf(72), timestamp |-> IntOf(2)])
    /\ fr.sources["hvac"] = fr.other["hvac"]
    /\ ~IsNone(fr.digest)
    /\ fr.digest = fr.other_digest

\* C32: snapshot_digest returns None exactly for the empty snapshot, and
\* the digest of a snapshot is the same for every insertion order of the
\* kinds and of the fields inside each kind.
C32_DigestIgnoresInsertionOrder ==
    fr.called =>
        /\ IsNone(fr.digest) <=> snapshot_dict(fr.sources) = << >>
        /\ IsNone(fr.reordered_digest) <=> fr.reordered = << >>
        /\ fr.reordered_digest = fr.digest

\* hvac was inserted before realtime and speed before elec_percent, the
\* other way round than the code inserts them.
C32_Witness ==
    /\ fr.called
    /\ Len(fr.reordered) = 2
    /\ fr.reordered # snapshot_dict(fr.sources)
    /\ fr.reordered[1][1] = "hvac"
    /\ Len(fr.reordered[2][2]) = 2
    /\ fr.reordered[2][2][1][1] = "speed"
    /\ ~IsNone(fr.digest)
    /\ fr.reordered_digest = fr.digest

\* C33: after the entry is unloaded, a delayed fetch that was still
\* sleeping is discarded: it starts no remote call and creates no client.
C33_NoDelayedFetchAfterTeardown ==
    [][api.unloaded =>
        /\ \A t \in {"fetch_hvac", "fetch_realtime"} :
             api.task[t].pc = "idle" => api'.task[t].pc = "idle"
        /\ api'.scheduled # api.scheduled => api'.made = api.made]_vars

\* The step completes a telemetry cycle without a freshly accepted climate
\* value: the climate fetch was skipped or failed (no verdict) or its
\* value was rejected by the guard.
NoFreshClimate == CycleCompletes /\ ev'.verdict \in {"none", "rejected"}

\* C34: a telemetry cycle without a freshly accepted climate value returns
\* the last cached climate value (_last_hvac) when its effective realtime
\* reports the vehicle on, and no climate value when it reports it off.
C34_ClimateFallbackOnlyWhileOn ==
    [][NoFreshClimate =>
        /\ ~IsNone(data') /\ ~IsNone(Get(data').realtime)
        /\ last_hvac' = last_hvac
        /\ Get(data').hvac
             = IF Get(Get(data').realtime).on THEN last_hvac ELSE None]_vars

\* A cycle whose climate value the guard rejected has just returned the
\* cached climate value for a vehicle that is on.
C34_Witness ==
    /\ ev.op = "poll" /\ ev.res = "ok" /\ ev.verdict = "rejected"
    /\ ~IsNone(data) /\ Get(data).realtime = Some([on |-> TRUE])
    /\ ~IsNone(last_hvac)
    /\ Get(data).hvac = last_hvac
    /\ Some(ev.cand) # Some(last_hvac)

\* The guard's expiry and expected value are both absent or both set.
GuardPaired == IsNone(optimistic_hvac_until) <=> IsNone(optimistic_ac_expected)

\* The step is a car-on switch command that patches the climate value of
\* the cache while the guard is armed: it arms the guard again.
ArmsWhileArmed ==
    /\ ev'.op \in {"car_on", "car_off"}
    /\ ev'.res # "HomeAssistantError"
    /\ ~IsNone(data) /\ ~IsNone(Get(data).hvac)
    /\ ~IsNone(optimistic_hvac_until)

\* C35: the guard's expected value and expiry are both absent or both set
\* in every reachable state, and arming while armed replaces both by the
\* newer command's value and now + 60 s.
C35_OneGuardNewerArmWins ==
    /\ []GuardPaired
    /\ [][ArmsWhileArmed =>
            /\ optimistic_hvac_until' = Some(now + OPTIMISTIC_HVAC_GUARD_TTL_S)
            /\ optimistic_ac_expected' = Some(ev'.op = "car_on")]_vars

\* The guard armed for "on" at time 0 has been armed again at a later time
\* for "off": it expects off and expires 60 s after the second command.
C35_Witness ==
    /\ ev.op = "car_off" /\ ev.res = "ok"
    /\ now > 0
    /\ optimistic_hvac_until = Some(now + OPTIMISTIC_HVAC_GUARD_TTL_S)
    /\ optimistic_ac_expected = Some(FALSE)
    /\ ~IsNone(last_hvac) /\ ~Get(last_hvac).ac

\* The power state of the realtime value the cache (coordinator.data)
\* holds for the VIN; false when it holds none.
CacheReportsOn ==
    /\ ~IsNone(data)
    /\ ~IsNone(Get(data).realtime)
    /\ Get(Get(data).realtime).on

\* C36: is_vehicle_on is false whenever the cache holds no realtime value
\* and otherwise equals the power state of the cache's realtime value,
\* after any poll cycles, forced realtime fetches and pushes.
C36_VehicleOnFollowsCache == is_vehicle_on = CacheReportsOn

\* Each coordinator's update_interval is None exactly while its polling
\* is disabled.
IntervalAbsentIffDisabled ==
    /\ IsNone(update_interval) <=> ~polling_enabled
    /\ IsNone(gps.update_interval) <=> ~gps.polling_enabled

\* C37: for both coordinators update_interval is absent exactly when
\* polling is disabled, whatever set_polling_enabled calls, forced
\* refreshes and interval recomputations happened; re-enabling gives the
\* telemetry coordinator its fixed interval and the location coordinator
\* the interval _adjust_interval computed last.
C37_IntervalAbsentIffPollingDisabled ==
    /\ []IntervalAbsentIffDisabled
    /\ [][(~polling_enabled /\ polling_enabled')
            => update_interval' = Some(DEFAULT_POLL_INTERVAL)]_vars
    /\ [][(~gps.polling_enabled /\ gps'.polling_enabled)
            => /\ gps'.update_interval = Some(gps.current_interval)
               /\ gps'.current_interval = gps.current_interval]_vars

\* Polling is enabled again and the location coordinator is scheduled
\* with the adaptive active interval, not its fixed one.
C37_Witness ==
    /\ ev = NoEvent
    /\ polling_enabled /\ gps.polling_enabled
    /\ update_interval = Some(DEFAULT_POLL_INTERVAL)
    /\ gps.smart_polling
    /\ gps.current_interval = DEFAULT_GPS_ACTIVE_INTERVAL
    /\ gps.update_interval = Some(DEFAULT_GPS_ACTIVE_INTERVAL)
    /\ DEFAULT_GPS_ACTIVE_INTERVAL # DEFAULT_GPS_POLL_INTERVAL

\* The last step merged a pushed realtime value into the cache while a
\* poll cycle, its own realtime value already fetched, awaits the climate
\* fetch: the pushed value is the newer of the two.
PushedDuringClimateFetch ==
    /\ ev.op = "push" /\ ev.res = "ok"
    /\ ~IsNone(data) /\ Get(data).realtime = ev.cand
    /\ pc = "hvac"
    /\ ~IsNone(cyc.realtime)

\* C38: a realtime value pushed and merged while a poll cycle is in flight
\* is not overwritten by the cycle's earlier-fetched realtime value: when
\* the cycle completes the cache still holds the pushed value.
C38_PushSurvivesCycleInFlight ==
    [][(PushedDuringClimateFetch /\ CycleCompletes)
        => Get(data').realtime = ev.cand]_vars

\* Task t's handler is running on the current client, a started one.
RunsOnCurrentClient(t) ==
    /\ api.task[t].pc = "flight"
    /\ api.client # 0
    /\ api.client \in api.started
    /\ api.on[t] = api.client

\* C39: no async_call closes or replaces the shared client while the
\* handler of another async_call is still running on that client.
C39_ClientKeptWhileHandlerRuns ==
    [][\A t \in ClientTasks :
         (RunsOnCurrentClient(t) /\ t \notin ev'.calls)
            => api'.client = api.client]_vars

\* C40: every running handler was given a client whose async_start has
\* returned, and at most one client is open at a time.
C40_HandlerRunsOnStartedClient ==
    /\ \A t \in ClientTasks :
         api.task[t].pc = "flight" => api.on[t] \in api.started
    /\ api.made - api.closed <= 1

TypeOK ==
    /\ now \in 0..(MaxTime + MaxEntityTime)
    /\ pc \in {"idle", "realtime", "hvac"}
    /\ data \in {None} \cup
         {Some(Cache(r, h)) : r \in {None} \cup {Some(v) : v \in RealtimeValues},
                              h \in {None} \cup {Some(v) : v \in HvacValues}}

====
